---- MODULE Spec2Model ----
(***************************************************************************)
(* A model of github.com/aaffriya/logger: the ctxmeta context store        *)
(* (pkg/context), the W3C traceparent codec and the identifier generator.  *)
(*                                                                         *)
(* Go strings are sequences of one-character strings, so that splitting,   *)
(* case folding and hex decoding are computed and not assumed.  Go maps    *)
(* are objects on a heap: a context holds the address of its carrier map,  *)
(* so sharing of a map between two holders is visible in the model.        *)
(*                                                                         *)
(* The slog handler (internal/handler) keeps its handlers in `handlers`,   *)
(* the backing arrays of their slices in `arrays`, what reached the        *)
(* destination writer in `out` and the holder of the file sink's mutex in  *)
(* `mu`.                                                                   *)
(***************************************************************************)
EXTENDS Integers, Sequences, FiniteSets, TLC

VARIABLES heap, dheap, ctxs, last, est, hist, thr, handlers, arrays, out, mu, closed

vars == <<heap, dheap, ctxs, last, est, hist, thr, handlers, arrays, out, mu, closed>>

(***************************************************************************)
(* Bounds of the model.                                                    *)
(***************************************************************************)
\* contexts a run may create, context.Background() included
MaxCtx == 3
\* longest argument list handed to SetPair
MaxArgs == 4
\* concurrent goroutines using the store
NThreads == 2
\* contexts a run of the trace operations may create, Background included
MaxTraceCtx == 3
\* events a run of the handler may log
MaxEvents == 1
\* handlers a run of forks may create, the root included
MaxHandlers == 5

(***************************************************************************)
(* Strings.                                                                *)
(***************************************************************************)
Fill(ch, n) == [i \in 1..n |-> ch]

Patch(s, p, ch) == [i \in 1..Len(s) |-> IF i = p THEN ch ELSE s[i]]

TraceIDKey == <<"t", "r", "a", "c", "e", "_", "i", "d">>

UserIDKey == <<"u", "s", "e", "r", "_", "i", "d">>

ActionKey == <<"a", "c", "t", "i", "o", "n">>

SpanIDKey == <<"s", "p", "a", "n", "_", "i", "d">>

TraceFlagsKey == <<"t", "r", "a", "c", "e", "_", "f", "l", "a", "g", "s">>

(***************************************************************************)
(* The heap of Go maps.  Address 0 is nil; a map is a function from keys   *)
(* to values.                                                              *)
(***************************************************************************)
EmptyMap == << >>

MapPut(m, k, v) == [x \in (DOMAIN m) \cup {k} |-> IF x = k THEN v ELSE m[x]]

MapDelete(m, k) == [x \in (DOMAIN m) \ {k} |-> m[x]]

\* context.Background(): no carrier of either kind
Background == [parent |-> 0, carrier |-> 0, dcarrier |-> 0]

\* context.WithValue(ctx, contextCarrierKey, carrier)
WithValue(parent, ctx, carrier) ==
    [parent |-> parent, carrier |-> carrier, dcarrier |-> ctx.dcarrier]

\* context.WithValue(ctx, contextDataCarrierKey, carrier)
WithDataValue(parent, ctx, carrier) ==
    [parent |-> parent, carrier |-> ctx.carrier, dcarrier |-> carrier]

\* the state of the store as one value: operations map a world to a world
World == [heap |-> heap, dheap |-> dheap, ctxs |-> ctxs]

\* GetAll: the carrier map of the context itself when it has one, a newly
\* made empty map otherwise.  The result is a reference.
GetAll(h, ctx) ==
    IF ctx.carrier # 0
    THEN [heap |-> h, ref |-> ctx.carrier]
    ELSE [heap |-> Append(h, EmptyMap), ref |-> Len(h) + 1]

\* a plausible slip: a copy that returns its argument
copyMapAliased(h, original) == [heap |-> h, ref |-> original]

\* copyMap: make a new map and maps.Copy the original into it
copyMap(h, original) == [heap |-> Append(h, h[original]), ref |-> Len(h) + 1]

\* the mapping GetAll(ctx) denotes
Carrier(h, ctx) == LET g == GetAll(h, ctx) IN g.heap[g.ref]

\* Get: (value, ok); the zero value "" when the key is absent
Get(h, ctx, key) ==
    LET carrier == Carrier(h, ctx)
    IN  IF key \in DOMAIN carrier THEN <<carrier[key], TRUE>> ELSE << << >>, FALSE>>

\* GetPair: the carrier restricted to the keys asked for that are present
GetPair(h, ctx, keys) ==
    LET carrier == Carrier(h, ctx)
    IN  [k \in {keys[i] : i \in 1..Len(keys)} \cap DOMAIN carrier |-> carrier[k]]

\* Set: copy the carrier, write one key, bind the copy to a new context
Set(w, c, key, value) ==
    LET g  == GetAll(w.heap, w.ctxs[c])
        cp == copyMap(g.heap, g.ref)
    IN  [heap   |-> [cp.heap EXCEPT ![cp.ref] = MapPut(@, key, value)],
         dheap  |-> w.dheap,
         ctxs   |-> Append(w.ctxs, WithValue(c, w.ctxs[c], cp.ref)),
         ctx    |-> Len(w.ctxs) + 1]

\* a plausible slip: the loop steps by one argument instead of one pair
RECURSIVE SetPairLoopByOne(_, _, _)
SetPairLoopByOne(carrier, kv, i) ==
    IF i + 1 > Len(kv) THEN carrier
    ELSE SetPairLoopByOne(MapPut(carrier, kv[i], kv[i + 1]), kv, i + 1)

\* the loop of SetPair: for i := 0; i < len(kv); i += 2 (here from 1)
RECURSIVE SetPairLoop(_, _, _)
SetPairLoop(carrier, kv, i) ==
    IF i > Len(kv) THEN carrier
    ELSE SetPairLoop(MapPut(carrier, kv[i], kv[i + 1]), kv, i + 2)

\* a plausible slip: the odd argument list is not cut, the last key is
\* stored with the zero value
SetPairArgsPadded(kv) == IF Len(kv) % 2 # 0 THEN Append(kv, << >>) ELSE kv

\* the argument list SetPair works on: an odd list loses its last element
SetPairArgs(kv) == IF Len(kv) % 2 # 0 THEN SubSeq(kv, 1, Len(kv) - 1) ELSE kv

\* SetPair: warn on an odd argument list, then one copy and all the writes
SetPair(w, c, keysAndValues) ==
    LET kv == SetPairArgs(keysAndValues)
        g  == GetAll(w.heap, w.ctxs[c])
        cp == copyMap(g.heap, g.ref)
    IN  [heap   |-> [cp.heap EXCEPT ![cp.ref] = SetPairLoop(@, kv, 1)],
         dheap  |-> w.dheap,
         ctxs   |-> Append(w.ctxs, WithValue(c, w.ctxs[c], cp.ref)),
         ctx    |-> Len(w.ctxs) + 1,
         warned |-> Len(keysAndValues) % 2 # 0]

\* GetAllData, copyDataMap, SetData, GetData: the channel of structured values
GetAllData(h, ctx) ==
    IF ctx.dcarrier # 0
    THEN [heap |-> h, ref |-> ctx.dcarrier]
    ELSE [heap |-> Append(h, EmptyMap), ref |-> Len(h) + 1]

copyDataMap(h, original) == [heap |-> Append(h, h[original]), ref |-> Len(h) + 1]

DataCarrier(h, ctx) == LET g == GetAllData(h, ctx) IN g.heap[g.ref]

GetData(h, ctx, key) ==
    LET carrier == DataCarrier(h, ctx)
    IN  IF key \in DOMAIN carrier THEN <<carrier[key], TRUE>> ELSE <<0, FALSE>>

SetData(w, c, key, value) ==
    LET g  == GetAllData(w.dheap, w.ctxs[c])
        cp == copyDataMap(g.heap, g.ref)
    IN  [heap   |-> w.heap,
         dheap  |-> [cp.heap EXCEPT ![cp.ref] = MapPut(@, key, value)],
         ctxs   |-> Append(w.ctxs, WithDataValue(c, w.ctxs[c], cp.ref)),
         ctx    |-> Len(w.ctxs) + 1]

(***************************************************************************)
(* The store used by one caller at a time: every call is one action.       *)
(***************************************************************************)
\* the strings callers use as keys and as values
Strs == {<<"a">>, <<"b">>}

\* the structured values callers hand to SetData
DataVals == {1, 2}

Ctxs == 1..Len(ctxs)

ArgLists == UNION {[1..n -> Strs] : n \in 0..MaxArgs}

Commit(r) ==
    /\ heap' = r.heap
    /\ dheap' = r.dheap
    /\ ctxs' = r.ctxs

Init ==
    /\ heap = << >>
    /\ dheap = << >>
    /\ ctxs = <<Background>>
    /\ last = [op |-> "init"]
    /\ est = << >>
    /\ hist = {}
    /\ handlers = << >>
    /\ arrays = << >>
    /\ out = << >>
    /\ mu = 0
    /\ closed = FALSE
    /\ thr = [t \in 1..NThreads |-> [pc |-> "idle"]]

StoreSet ==
    \E c \in Ctxs, key \in Strs, value \in Strs :
        /\ Len(ctxs) < MaxCtx
        /\ LET r == Set(World, c, key, value)
           IN  /\ Commit(r)
               /\ last' = [op |-> "Set", ctx |-> c, key |-> key, value |-> value,
                           res |-> r.ctx]
        /\ UNCHANGED <<est, hist, thr, handlers, arrays, out, mu, closed>>

StoreSetPair ==
    \E c \in Ctxs, args \in ArgLists :
        /\ Len(ctxs) < MaxCtx
        /\ LET r == SetPair(World, c, args)
           IN  /\ Commit(r)
               /\ last' = [op |-> "SetPair", ctx |-> c, args |-> args,
                           res |-> r.ctx, warned |-> r.warned]
        /\ UNCHANGED <<est, hist, thr, handlers, arrays, out, mu, closed>>

StoreSetData ==
    \E c \in Ctxs, key \in Strs, value \in DataVals :
        /\ Len(ctxs) < MaxCtx
        /\ LET r == SetData(World, c, key, value)
           IN  /\ Commit(r)
               /\ last' = [op |-> "SetData", ctx |-> c, key |-> key, value |-> value,
                           res |-> r.ctx]
        /\ UNCHANGED <<est, hist, thr, handlers, arrays, out, mu, closed>>

Next == StoreSet \/ StoreSetPair \/ StoreSetData

Spec == Init /\ [][Next]_vars

(***************************************************************************)
(* A caller that writes to, or deletes from, the mapping GetAll returned.  *)
(***************************************************************************)
CallerWritesGetAll ==
    \E c \in Ctxs, key \in Strs, value \in Strs :
        /\ LET g == GetAll(heap, ctxs[c])
           IN  /\ ctxs[c].carrier # 0
               /\ heap' = [g.heap EXCEPT ![g.ref] = MapPut(@, key, value)]
        /\ last' = [op |-> "CallerWrites", ctx |-> c, key |-> key, value |-> value]
        /\ UNCHANGED <<dheap, ctxs, est, hist, thr, handlers, arrays, out, mu, closed>>

CallerDeletesGetAll ==
    \E c \in Ctxs, key \in Strs :
        /\ LET g == GetAll(heap, ctxs[c])
           IN  /\ ctxs[c].carrier # 0
               /\ heap' = [g.heap EXCEPT ![g.ref] = MapDelete(@, key)]
        /\ last' = [op |-> "CallerDeletes", ctx |-> c, key |-> key]
        /\ UNCHANGED <<dheap, ctxs, est, hist, thr, handlers, arrays, out, mu, closed>>

NextCaller == Next \/ CallerWritesGetAll \/ CallerDeletesGetAll

SpecCaller == Init /\ [][NextCaller]_vars

(***************************************************************************)
(* What a reader can observe of a context.                                 *)
(***************************************************************************)
Observed(c) ==
    [all  |-> Carrier(heap, ctxs[c]),
     get  |-> [k \in Strs |-> Get(heap, ctxs[c], k)],
     pair |-> [k \in Strs |-> GetPair(heap, ctxs[c], <<k, <<"b">> >>)],
     data |-> DataCarrier(dheap, ctxs[c])]

\* d was derived from c by one or more writes
RECURSIVE DerivedFrom(_, _)
DerivedFrom(d, c) ==
    /\ d # 0
    /\ ctxs[d].parent # 0
    /\ (ctxs[d].parent = c \/ DerivedFrom(ctxs[d].parent, c))

IsWrite(l) == l.op \in {"Set", "SetPair", "SetData"}

\* C1: copy-on-write isolation.  No Set, SetPair or SetData call, on a
\* context or on one derived from it, changes what Get, GetPair and GetAll
\* return for any context that existed before the call.
C1_CopyOnWriteIsolation ==
    [][\A c \in Ctxs : Observed(c)' = Observed(c)]_vars

\* a context that has a carrier map, and a context derived from it by a
\* write that holds other contents
C1_Witness ==
    /\ IsWrite(last)
    /\ \E c \in Ctxs :
          /\ ctxs[c].carrier # 0
          /\ DerivedFrom(last.res, c)
          /\ Observed(last.res).all # Observed(c).all

\* C3: GetAll returns a defensive copy.  A caller's write to, or deletion
\* from, the mapping GetAll(c) returned changes nothing that Get, GetPair or
\* GetAll return afterwards, for c or any other context.
C3_GetAllDefensiveCopy ==
    [][last'.op \in {"CallerWrites", "CallerDeletes"}
          => \A c \in Ctxs : Observed(c)' = Observed(c)]_vars

\* the store Set yields when applied once per pair, left to right
RECURSIVE SetEachPair(_, _, _, _)
SetEachPair(w, c, kv, i) ==
    IF i + 1 > Len(kv) THEN Carrier(w.heap, w.ctxs[c])
    ELSE LET r == Set(w, c, kv[i], kv[i + 1])
         IN  SetEachPair(r, r.ctx, kv, i + 2)

\* C4: Get(Set(c,k,v), k) = (v, true) and every other key reads as in c;
\* SetPair with an even argument list yields the store that Set, applied
\* once per pair from left to right, yields.
C4_SetGetSemantics ==
    /\ last.op = "Set" =>
          /\ Get(heap, ctxs[last.res], last.key) = <<last.value, TRUE>>
          /\ \A k \in Strs \ {last.key} :
                Get(heap, ctxs[last.res], k) = Get(heap, ctxs[last.ctx], k)
    /\ (last.op = "SetPair" /\ Len(last.args) % 2 = 0) =>
          Carrier(heap, ctxs[last.res]) = SetEachPair(World, last.ctx, last.args, 1)

\* a four-argument SetPair that names one key twice with two values, on a
\* context that already stores something
C4_Witness ==
    /\ last.op = "SetPair"
    /\ Len(last.args) = 4
    /\ last.args[1] = last.args[3]
    /\ last.args[2] # last.args[4]
    /\ ctxs[last.ctx].carrier # 0
    /\ Get(heap, ctxs[last.res], last.args[1]) = <<last.args[4], TRUE>>

\* C5: SetPair with an odd argument list returns a context whose store is
\* the input store updated with the complete leading pairs; the trailing
\* unpaired argument adds and changes nothing.
C5_SetPairOddArguments ==
    (last.op = "SetPair" /\ Len(last.args) % 2 = 1) =>
        LET n == Len(last.args)
            orphan == last.args[n]
            pairs == SubSeq(last.args, 1, n - 1)
        IN  /\ last.res \in Ctxs
            /\ Carrier(heap, ctxs[last.res]) = SetEachPair(World, last.ctx, pairs, 1)
            /\ orphan \notin {pairs[i] : i \in {j \in 1..(n - 1) : j % 2 = 1}} =>
                  Get(heap, ctxs[last.res], orphan) = Get(heap, ctxs[last.ctx], orphan)

\* three arguments: one pair is stored, the orphan key is absent
C5_Witness ==
    /\ last.op = "SetPair"
    /\ Len(last.args) = 3
    /\ last.warned
    /\ last.args[3] # last.args[1]
    /\ Get(heap, ctxs[last.res], last.args[1]) = <<last.args[2], TRUE>>
    /\ Get(heap, ctxs[last.res], last.args[3])[2] = FALSE

(***************************************************************************)
(* The store used by several goroutines at once.  A call is a sequence of  *)
(* steps: GetAll reads the carrier reference, copyMap allocates the copy,  *)
(* every carrier[key] = value is one write, context.WithValue publishes    *)
(* the new context.  A reader reads one key per step.  There is no lock.   *)
(***************************************************************************)
Threads == 1..NThreads

\* the goroutines start from one context that stores a value: the state
\* after Set(context.Background(), "a", "a")
InitialWorld ==
    Set([heap |-> << >>, dheap |-> << >>, ctxs |-> <<Background>>], 1, <<"a">>, <<"a">>)

InitConc ==
    LET r == InitialWorld
    IN  /\ heap = r.heap
        /\ dheap = r.dheap
        /\ ctxs = r.ctxs
        /\ last = [op |-> "init"]
        /\ est = << >>
        /\ hist = {}
        /\ handlers = << >>
        /\ arrays = << >>
        /\ out = << >>
        /\ mu = 0
        /\ closed = FALSE
        /\ thr = [t \in Threads |-> [pc |-> "idle"]]

\* the context every goroutine starts from
SharedCtx == Len(InitialWorld.ctxs)

\* what the concurrent writers store: a value the starting context does
\* not hold, under either key; SetPair is called with the longest argument
\* lists, with and without a trailing unpaired key
ConcValues == {<<"b">>}

ConcDataKeys == {<<"b">>}

ConcArgLists ==
    {args \in ArgLists :
        /\ Len(args) >= MaxArgs - 1
        /\ \A i \in 1..Len(args) : i % 2 = 0 => args[i] \in ConcValues}

WriterPcs == {"copy", "write", "bind"}

Idle == [pc |-> "idle"]

\* the goroutines create at most MaxCtx - 1 contexts, the ones about to be
\* published included
CanBeginWrite ==
    Len(ctxs) + Cardinality({u \in Threads : thr[u].pc \in WriterPcs}) <= MaxCtx

Writer(op, chan, c, kv, g) ==
    [pc |-> "copy", op |-> op, chan |-> chan, ctx |-> c, kv |-> kv, g |-> g,
     carrier |-> 0, i |-> 1]

TBeginSet(t) ==
    /\ thr[t].pc = "idle"
    /\ CanBeginWrite
    /\ \E c \in {SharedCtx}, key \in Strs, value \in ConcValues :
          LET g == GetAll(heap, ctxs[c])
          IN  /\ heap' = g.heap
              /\ thr' = [thr EXCEPT ![t] = Writer("Set", "str", c, <<key, value>>, g.ref)]
    /\ UNCHANGED <<dheap, ctxs, last, est, hist, handlers, arrays, out, mu, closed>>

TBeginSetPair(t) ==
    /\ thr[t].pc = "idle"
    /\ CanBeginWrite
    /\ \E c \in {SharedCtx}, args \in ConcArgLists :
          LET g == GetAll(heap, ctxs[c])
          IN  /\ heap' = g.heap
              /\ thr' = [thr EXCEPT ![t] =
                            Writer("SetPair", "str", c, SetPairArgs(args), g.ref)]
    /\ UNCHANGED <<dheap, ctxs, last, est, hist, handlers, arrays, out, mu, closed>>

TBeginSetData(t) ==
    /\ thr[t].pc = "idle"
    /\ CanBeginWrite
    /\ \E c \in {SharedCtx}, key \in ConcDataKeys, value \in DataVals :
          LET g == GetAllData(dheap, ctxs[c])
          IN  /\ dheap' = g.heap
              /\ thr' = [thr EXCEPT ![t] = Writer("SetData", "data", c, <<key, value>>, g.ref)]
    /\ UNCHANGED <<heap, ctxs, last, est, hist, handlers, arrays, out, mu, closed>>

TCopy(t) ==
    /\ thr[t].pc = "copy"
    /\ LET cp == IF thr[t].chan = "str" THEN copyMap(heap, thr[t].g)
                 ELSE copyDataMap(dheap, thr[t].g)
       IN  /\ heap' = IF thr[t].chan = "str" THEN cp.heap ELSE heap
           /\ dheap' = IF thr[t].chan = "str" THEN dheap ELSE cp.heap
           /\ thr' = [thr EXCEPT ![t].carrier = cp.ref,
                                 ![t].pc = IF Len(thr[t].kv) = 0 THEN "bind" ELSE "write"]
    /\ UNCHANGED <<ctxs, last, est, hist, handlers, arrays, out, mu, closed>>

TWrite(t) ==
    /\ thr[t].pc = "write"
    /\ LET i == thr[t].i
           a == thr[t].carrier
           kv == thr[t].kv
       IN  /\ heap' = IF thr[t].chan = "str"
                      THEN [heap EXCEPT ![a] = MapPut(@, kv[i], kv[i + 1])] ELSE heap
           /\ dheap' = IF thr[t].chan = "str" THEN dheap
                       ELSE [dheap EXCEPT ![a] = MapPut(@, kv[i], kv[i + 1])]
           /\ thr' = [thr EXCEPT ![t].i = i + 2,
                                 ![t].pc = IF i + 2 > Len(kv) THEN "bind" ELSE "write"]
    /\ UNCHANGED <<ctxs, last, est, hist, handlers, arrays, out, mu, closed>>

TBind(t) ==
    /\ thr[t].pc = "bind"
    /\ ctxs' = Append(ctxs,
                 IF thr[t].chan = "str"
                 THEN WithValue(thr[t].ctx, ctxs[thr[t].ctx], thr[t].carrier)
                 ELSE WithDataValue(thr[t].ctx, ctxs[thr[t].ctx], thr[t].carrier))
    /\ thr' = [thr EXCEPT ![t] = Idle]
    /\ UNCHANGED <<heap, dheap, last, est, hist, handlers, arrays, out, mu, closed>>

\* the key lists readers ask for: Get one key, GetPair two (the key the
\* context does not hold first), as a caller of GetAll reads every key of
\* the map it was handed
KeyLists == {<<k>> : k \in Strs} \cup {<< <<"b">>, <<"a">> >>}

\* a reader holds the reference GetAll gave it (0: the empty map GetAll
\* made for a context with no carrier, which nobody else can reach); seen
\* is what the context held when the call began
TBeginRead(t) ==
    /\ thr[t].pc = "idle"
    /\ \E c \in {SharedCtx}, keys \in KeyLists :
          LET g == GetAll(heap, ctxs[c])
          IN  thr' = [thr EXCEPT ![t] =
                [pc |-> "read", op |-> "GetPair", ctx |-> c, keys |-> keys,
                 g |-> IF g.ref > Len(heap) THEN 0 ELSE g.ref,
                 i |-> 1, result |-> EmptyMap, seen |-> g.heap[g.ref]]]
    /\ UNCHANGED <<heap, dheap, ctxs, last, est, hist, handlers, arrays, out, mu, closed>>

TRead(t) ==
    /\ thr[t].pc = "read"
    /\ LET m == IF thr[t].g = 0 THEN EmptyMap ELSE heap[thr[t].g]
           k == thr[t].keys[thr[t].i]
       IN  thr' = [thr EXCEPT
                ![t].result = IF k \in DOMAIN m THEN MapPut(@, k, m[k]) ELSE @,
                ![t].i = @ + 1,
                ![t].pc = IF thr[t].i + 1 > Len(thr[t].keys) THEN "ret" ELSE "read"]
    /\ UNCHANGED <<heap, dheap, ctxs, last, est, hist, handlers, arrays, out, mu, closed>>

TReturn(t) ==
    /\ thr[t].pc = "ret"
    /\ thr' = [thr EXCEPT ![t] = Idle]
    /\ UNCHANGED <<heap, dheap, ctxs, last, est, hist, handlers, arrays, out, mu, closed>>

NextConc ==
    \E t \in Threads :
        \/ TBeginSet(t)
        \/ TBeginSetPair(t)
        \/ TBeginSetData(t)
        \/ TCopy(t)
        \/ TWrite(t)
        \/ TBind(t)
        \/ TBeginRead(t)
        \/ TRead(t)
        \/ TReturn(t)

SpecConc == InitConc /\ [][NextConc]_vars

\* the address thread u holds of a map of the channel chan
Holds(u, chan, a) ==
    \/ /\ thr[u].pc \in WriterPcs
       /\ thr[u].chan = chan
       /\ a \in {thr[u].g, thr[u].carrier}
    \/ /\ thr[u].pc \in {"read", "ret"}
       /\ chan = "str"
       /\ thr[u].g = a

\* C2: unsynchronized concurrent use is safe.  The map a writer is about
\* to write to, or has written to and not yet published, is reachable from
\* no context and held by no other goroutine; and what a reader has read of
\* a context is what the context held when the read began.
C2_ConcurrentUseSafe ==
    /\ \A t \in Threads : thr[t].pc \in {"write", "bind"} =>
          /\ \A c \in Ctxs :
                IF thr[t].chan = "str" THEN ctxs[c].carrier # thr[t].carrier
                ELSE ctxs[c].dcarrier # thr[t].carrier
          /\ \A u \in Threads \ {t} : ~Holds(u, thr[t].chan, thr[t].carrier)
    /\ \A t \in Threads : thr[t].pc \in {"read", "ret"} =>
          thr[t].result =
              [k \in {thr[t].keys[j] : j \in 1..(thr[t].i - 1)} \cap DOMAIN thr[t].seen
                  |-> thr[t].seen[k]]

\* a SetPair with one of its two pairs written, while another goroutine is
\* between its two reads of the context the writer started from
C2_Witness ==
    \E t \in Threads, u \in Threads :
        /\ thr[t].pc = "write"
        /\ thr[t].op = "SetPair"
        /\ thr[t].i = 3
        /\ thr[u].pc = "read"
        /\ thr[u].i = 2
        /\ thr[u].ctx = thr[t].ctx
        /\ thr[u].g = thr[t].g
        /\ thr[u].g # 0
        /\ heap[thr[t].carrier] # heap[thr[t].g]

(***************************************************************************)
(* The traceparent codec.                                                  *)
(***************************************************************************)
UpperLetters ==
    <<"A", "B", "C", "D", "E", "F", "G", "H", "I", "J", "K", "L", "M",
      "N", "O", "P", "Q", "R", "S", "T", "U", "V", "W", "X", "Y", "Z">>

LowerLetters ==
    <<"a", "b", "c", "d", "e", "f", "g", "h", "i", "j", "k", "l", "m",
      "n", "o", "p", "q", "r", "s", "t", "u", "v", "w", "x", "y", "z">>

\* unicode.ToLower on the ASCII letters
LowerOf ==
    [ch \in {UpperLetters[i] : i \in 1..Len(UpperLetters)} |->
        LowerLetters[CHOOSE i \in 1..Len(UpperLetters) : UpperLetters[i] = ch]]

LowerChar(ch) == IF ch \in DOMAIN LowerOf THEN LowerOf[ch] ELSE ch

\* strings.ToLower
ToLower(s) == [i \in 1..Len(s) |-> LowerChar(s[i])]

\* the characters hex.DecodeString accepts (fromHexChar)
HexChars ==
    {"0", "1", "2", "3", "4", "5", "6", "7", "8", "9",
     "a", "b", "c", "d", "e", "f", "A", "B", "C", "D", "E", "F"}

\* hex.DecodeString(s) returns no error: an even length, hex characters only
HexDecodes(s) ==
    /\ Len(s) % 2 = 0
    /\ \A i \in 1..Len(s) : s[i] \in HexChars

\* a plausible slip: the length is compared in characters, not in bytes
isValidHexLenInChars(s, byteLen) ==
    /\ Len(s) = byteLen
    /\ HexDecodes(s)

isValidHexLen(s, byteLen) ==
    /\ Len(s) = byteLen * 2
    /\ HexDecodes(s)

isAllZeroHex(s) == \A i \in 1..Len(s) : s[i] = "0"

\* strings.Split(s, "-"): the parts between the separators, at least one
RECURSIVE SplitFrom(_, _, _)
SplitFrom(s, i, part) ==
    IF i > Len(s) THEN <<part>>
    ELSE IF s[i] = "-" THEN <<part>> \o SplitFrom(s, i + 1, << >>)
    ELSE SplitFrom(s, i + 1, Append(part, s[i]))

Split(s) == SplitFrom(s, 1, << >>)

\* fmt.Sprintf("%s-%s-%s-%s", a, b, c, d)
Sprintf4(a, b, c, d) == a \o <<"-">> \o b \o <<"-">> \o c \o <<"-">> \o d

NoError == "nil"

\* validateTraceContext: the error, or nil
validateTraceContext(tc) ==
    IF tc.Version # <<"0", "0">> THEN "invalid version"
    ELSE IF ~isValidHexLen(tc.TraceID, 16) \/ isAllZeroHex(tc.TraceID)
    THEN "invalid trace-id"
    ELSE IF ~isValidHexLen(tc.ParentID, 8) \/ isAllZeroHex(tc.ParentID)
    THEN "invalid parent-id"
    ELSE IF ~isValidHexLen(tc.TraceFlags, 1) THEN "invalid trace-flags"
    ELSE NoError

NoTraceContext == [Version |-> << >>, TraceID |-> << >>, ParentID |-> << >>,
                   TraceFlags |-> << >>]

\* a plausible slip: the fields are kept as they were received
ParseTraceparentNoFold(traceparent) ==
    LET parts == Split(traceparent)
    IN  IF Len(parts) # 4 THEN [err |-> "invalid format", tc |-> NoTraceContext, ok |-> FALSE]
        ELSE LET tc == [Version |-> parts[1], TraceID |-> parts[2],
                        ParentID |-> parts[3], TraceFlags |-> parts[4]]
                 err == validateTraceContext(tc)
             IN  IF err # NoError THEN [err |-> err, tc |-> NoTraceContext, ok |-> FALSE]
                 ELSE [err |-> NoError, tc |-> tc, ok |-> TRUE]

\* ParseTraceparent: (tc, nil) or (nil, err); ok says which
ParseTraceparent(traceparent) ==
    LET parts == Split(traceparent)
    IN  IF Len(parts) # 4 THEN [err |-> "invalid format", tc |-> NoTraceContext, ok |-> FALSE]
        ELSE LET tc == [Version |-> parts[1], TraceID |-> ToLower(parts[2]),
                        ParentID |-> ToLower(parts[3]), TraceFlags |-> ToLower(parts[4])]
                 err == validateTraceContext(tc)
             IN  IF err # NoError THEN [err |-> err, tc |-> NoTraceContext, ok |-> FALSE]
                 ELSE [err |-> NoError, tc |-> tc, ok |-> TRUE]

\* a plausible slip: the span id is written before the trace id
TraceContextStringSwapped(tc) == Sprintf4(tc.Version, tc.ParentID, tc.TraceID, tc.TraceFlags)

\* TraceContext.String
TraceContextString(tc) == Sprintf4(tc.Version, tc.TraceID, tc.ParentID, tc.TraceFlags)

(***************************************************************************)
(* The codec applied to headers and trace contexts of every shape.         *)
(***************************************************************************)
\* strings.Join(parts, "-")
RECURSIVE Join(_)
Join(parts) ==
    IF Len(parts) = 0 THEN << >>
    ELSE IF Len(parts) = 1 THEN parts[1]
    ELSE parts[1] \o <<"-">> \o Join(Tail(parts))

\* candidates for a field of n hex characters: all zero, zero but for the
\* last digit, mixed case, a letter past f in either case, one character
\* short or long, half the length, empty
FieldPool(n) ==
    {Fill("0", n), Patch(Fill("0", n), n, "1"), Patch(Fill("a", n), 1, "F"),
     Patch(Fill("a", n), n, "g"), Patch(Fill("a", n), 1, "G"),
     Fill("a", n - 1), Fill("a", n + 1), Fill("a", n \div 2), << >>}

VersionPool == {<<"0", "0">>, <<"0", "1">>, <<"f", "f">>, <<"0">>, <<"0", "0", "0">>, << >>}

\* well-formed fields, used to build headers with too few or too many parts
GoodParts ==
    <<Fill("0", 2), Patch(Fill("0", 32), 32, "1"), Patch(Fill("a", 16), 1, "F"),
      Patch(Fill("0", 2), 2, "1")>>

PartLists ==
    {<<v, t, p, f>> : v \in VersionPool, t \in FieldPool(32), p \in FieldPool(16),
                      f \in FieldPool(2)}
    \cup {SubSeq(GoodParts, 1, n) : n \in 0..3}
    \cup {GoodParts \o <<x>> : x \in FieldPool(2)}

\* lowercase, non-zero identifiers of n hex characters
LowerIDs(n) ==
    {Patch(Fill("0", n), n, "1"), Fill("a", n), Patch(Fill("f", n), 1, "0"),
     Patch(Fill("0", n), 1, "9")}

ValidTraceContexts ==
    [Version : {<<"0", "0">>}, TraceID : LowerIDs(32), ParentID : LowerIDs(16),
     TraceFlags : LowerIDs(2) \cup {Fill("0", 2)}]

\* a call is chosen at the start and then made
InitCodec ==
    /\ heap = << >>
    /\ dheap = << >>
    /\ ctxs = <<Background>>
    /\ est = << >>
    /\ hist = {}
    /\ handlers = << >>
    /\ arrays = << >>
    /\ out = << >>
    /\ mu = 0
    /\ closed = FALSE
    /\ thr = [t \in Threads |-> Idle]
    /\ last \in {[op |-> "call ParseTraceparent", parts |-> parts] : parts \in PartLists}
                \cup {[op |-> "call String", tc |-> tc] : tc \in ValidTraceContexts}

CodecParse ==
    /\ last.op = "call ParseTraceparent"
    /\ last' = [op |-> "ParseTraceparent", parts |-> last.parts,
                header |-> Join(last.parts), out |-> ParseTraceparent(Join(last.parts))]
    /\ UNCHANGED <<heap, dheap, ctxs, est, hist, thr, handlers, arrays, out, mu, closed>>

CodecRoundTrip ==
    /\ last.op = "call String"
    /\ last' = [op |-> "RoundTrip", tc |-> last.tc, header |-> TraceContextString(last.tc),
                out |-> ParseTraceparent(TraceContextString(last.tc))]
    /\ UNCHANGED <<heap, dheap, ctxs, est, hist, thr, handlers, arrays, out, mu, closed>>

NextCodec == CodecParse \/ CodecRoundTrip

SpecCodec == InitCodec /\ [][NextCodec]_vars

\* exactly n hex characters, of either case
IsHexOfLen(s, n) ==
    /\ Len(s) = n
    /\ \A i \in 1..Len(s) :
          s[i] \in {"0", "1", "2", "3", "4", "5", "6", "7", "8", "9", "a", "b", "c",
                    "d", "e", "f", "A", "B", "C", "D", "E", "F"}

NotAllZeros(s) == \E i \in 1..Len(s) : s[i] # "0"

WellFormedParts(parts) ==
    /\ Len(parts) = 4
    /\ parts[1] = <<"0", "0">>
    /\ IsHexOfLen(parts[2], 32) /\ NotAllZeros(parts[2])
    /\ IsHexOfLen(parts[3], 16) /\ NotAllZeros(parts[3])
    /\ IsHexOfLen(parts[4], 2)

\* C6: ParseTraceparent succeeds exactly on a header of 4 parts with version
\* "00", a trace-id of 32 hex characters that is not all zeros, a span-id of
\* 16 hex characters that is not all zeros and flags of 2 hex characters; it
\* then returns the lowercase forms of the three fields, and returns no
\* TraceContext when it fails.
C6_ParseAcceptsExactly ==
    last.op = "ParseTraceparent" =>
        /\ last.out.ok <=> WellFormedParts(last.parts)
        /\ (last.out.err = NoError) <=> last.out.ok
        /\ last.out.ok =>
              /\ last.out.tc.Version = <<"0", "0">>
              /\ last.out.tc.TraceID = ToLower(last.parts[2])
              /\ last.out.tc.ParentID = ToLower(last.parts[3])
              /\ last.out.tc.TraceFlags = ToLower(last.parts[4])
        /\ ~last.out.ok => last.out.tc = NoTraceContext

\* a header with uppercase digits is accepted and returned in lowercase
C6_Witness ==
    /\ last.op = "ParseTraceparent"
    /\ last.out.ok
    /\ last.out.tc.TraceID # last.parts[2]
    /\ last.out.tc.ParentID # last.parts[3]
    /\ last.out.tc.TraceFlags # last.parts[4]

\* a header rejected for an all-zero trace-id alone
C6_WitnessRejected ==
    /\ last.op = "ParseTraceparent"
    /\ ~last.out.ok
    /\ Len(last.parts) = 4
    /\ last.parts[2] = Fill("0", 32)
    /\ WellFormedParts(Patch(last.parts, 2, Fill("a", 32)))

\* C7: for every valid TraceContext tc (lowercase fields, version "00"),
\* ParseTraceparent(tc.String()) succeeds and returns tc, field by field.
C7_RoundTrip ==
    last.op = "RoundTrip" =>
        /\ last.out.ok
        /\ last.out.tc.Version = last.tc.Version
        /\ last.out.tc.TraceID = last.tc.TraceID
        /\ last.out.tc.ParentID = last.tc.ParentID
        /\ last.out.tc.TraceFlags = last.tc.TraceFlags

\* a trace context serialized to the 55 characters of a header and parsed
C7_Witness ==
    /\ last.op = "RoundTrip"
    /\ Len(last.header) = 55
    /\ last.out.ok
    /\ last.tc.TraceFlags = <<"0", "0">>
    /\ last.tc.TraceID # Fill("a", 32)

(***************************************************************************)
(* Identifier generation.  crypto/rand is a source the model does not      *)
(* control: every Read returns an error or any bytes.                      *)
(***************************************************************************)
HexTable == <<"0", "1", "2", "3", "4", "5", "6", "7", "8", "9", "a", "b", "c", "d", "e", "f">>

\* hex.EncodeToString: two digits per byte, high nibble first
EncodeToString(b) ==
    [i \in 1..(2 * Len(b)) |->
        IF i % 2 = 1 THEN HexTable[(b[(i + 1) \div 2] \div 16) + 1]
        ELSE HexTable[(b[i \div 2] % 16) + 1]]

\* what one rand.Read of n bytes can do: fail, or fill the buffer
RandReads(n) ==
    {[err |-> TRUE, b |-> Fill(0, n)]}
    \cup {[err |-> FALSE, b |-> b] : b \in {Fill(0, n), Patch(Fill(0, n), n, 1), Fill(171, n)}}

\* generateID(n) given the first read and the read made if the first one
\* was all zero; b is the buffer that was encoded
generateID(n, r1, r2) ==
    IF r1.err THEN [id |-> << >>, err |-> TRUE, b |-> r1.b]
    ELSE LET allZero == \A i \in 1..n : r1.b[i] = 0
         IN  IF allZero /\ r2.err THEN [id |-> << >>, err |-> TRUE, b |-> r2.b]
             ELSE LET b == IF allZero THEN r2.b ELSE r1.b
                  IN  [id |-> ToLower(EncodeToString(b)), err |-> FALSE, b |-> b]

\* a plausible slip: supplied flags are taken as they are
NewTraceContextFlagsAsGiven(traceID, traceFlags, rs) ==
    LET tid == IF traceID = << >> THEN generateID(16, rs[1], rs[2])
               ELSE [id |-> traceID, b |-> << >>,
                     err |-> ~isValidHexLen(ToLower(traceID), 16)
                             \/ isAllZeroHex(ToLower(traceID))]
        pid == generateID(8, rs[3], rs[4])
    IN  IF tid.err THEN [err |-> TRUE, tc |-> NoTraceContext]
        ELSE IF pid.err THEN [err |-> TRUE, tc |-> NoTraceContext]
        ELSE [err |-> FALSE,
              tc  |-> [Version |-> <<"0", "0">>, TraceID |-> ToLower(tid.id),
                       ParentID |-> pid.id,
                       TraceFlags |-> IF traceFlags = << >> THEN <<"0", "1">>
                                      ELSE traceFlags]]

\* NewTraceContext(traceID, traceFlags); rs are the four reads it may make
NewTraceContext(traceID, traceFlags, rs) ==
    LET tid == IF traceID = << >> THEN generateID(16, rs[1], rs[2])
               ELSE [id |-> traceID, b |-> << >>,
                     err |-> ~isValidHexLen(ToLower(traceID), 16)
                             \/ isAllZeroHex(ToLower(traceID))]
        pid == generateID(8, rs[3], rs[4])
    IN  IF tid.err THEN [err |-> TRUE, tc |-> NoTraceContext]
        ELSE IF pid.err THEN [err |-> TRUE, tc |-> NoTraceContext]
        ELSE IF traceFlags # << >> /\ ~isValidHexLen(ToLower(traceFlags), 1)
        THEN [err |-> TRUE, tc |-> NoTraceContext]
        ELSE [err |-> FALSE,
              tc  |-> [Version |-> <<"0", "0">>, TraceID |-> ToLower(tid.id),
                       ParentID |-> pid.id,
                       TraceFlags |-> IF traceFlags = << >> THEN <<"0", "1">>
                                      ELSE ToLower(traceFlags)]]

\* GenerateTraceparent: the header, or "" and the error
GenerateTraceparent(rs) ==
    LET r == NewTraceContext(<< >>, <<"0", "1">>, rs)
    IN  IF r.err THEN [err |-> TRUE, header |-> << >>]
        ELSE [err |-> FALSE, header |-> TraceContextString(r.tc)]

\* WithTraceID
WithTraceID(w, c, traceID) == SetPair(w, c, <<TraceIDKey, traceID>>)

WithUserID(w, c, userID) == SetPair(w, c, <<UserIDKey, userID>>)

WithAction(w, c, action) == SetPair(w, c, <<ActionKey, action>>)

Unchanged(w, c) == [heap |-> w.heap, dheap |-> w.dheap, ctxs |-> w.ctxs, ctx |-> c]

\* a plausible slip: a header that is rejected is still stored as trace_id
WithTraceparentStoresAnyway(w, c, header) ==
    LET p == ParseTraceparent(header)
    IN  IF ~p.ok
        THEN LET r == SetPair(w, c, <<TraceIDKey, header>>)
             IN  Unchanged(r, r.ctx) @@ [err |-> TRUE]
        ELSE LET r == SetPair(w, c, <<TraceIDKey, p.tc.TraceID, SpanIDKey, p.tc.ParentID,
                                      TraceFlagsKey, p.tc.TraceFlags>>)
             IN  Unchanged(r, r.ctx) @@ [err |-> FALSE]

\* WithTraceparent: the header's three fields stored, or the context as it
\* was and the error
WithTraceparent(w, c, header) ==
    LET p == ParseTraceparent(header)
    IN  IF ~p.ok THEN Unchanged(w, c) @@ [err |-> TRUE]
        ELSE LET r == SetPair(w, c, <<TraceIDKey, p.tc.TraceID, SpanIDKey, p.tc.ParentID,
                                      TraceFlagsKey, p.tc.TraceFlags>>)
             IN  Unchanged(r, r.ctx) @@ [err |-> FALSE]

\* vals[key] on a Go map: the zero value "" when the key is absent
MapGet(m, key) == IF key \in DOMAIN m THEN m[key] ELSE << >>

\* GetTraceparent: (header, true), or ("", false) without a trace_id or a
\* span_id
GetTraceparent(h, ctx) ==
    LET vals     == GetPair(h, ctx, <<TraceIDKey, SpanIDKey, TraceFlagsKey>>)
        traceID  == MapGet(vals, TraceIDKey)
        parentID == MapGet(vals, SpanIDKey)
        flags    == IF MapGet(vals, TraceFlagsKey) = << >> THEN <<"0", "1">>
                    ELSE MapGet(vals, TraceFlagsKey)
    IN  IF TraceIDKey \notin DOMAIN vals \/ traceID = << >> THEN << << >>, FALSE >>
        ELSE IF parentID = << >> THEN << << >>, FALSE >>
        ELSE <<Sprintf4(<<"0", "0">>, ToLower(traceID), ToLower(parentID), ToLower(flags)),
               TRUE>>

\* GetTraceFlags: the stored trace_flags, "" when there is none
GetTraceFlags(h, ctx) == Get(h, ctx, TraceFlagsKey)[1]

\* a plausible slip: the stored trace_id is not looked at
GetOrGenerateTraceIDAlways(w, c, r1, r2) ==
    LET id == generateID(16, r1, r2)
    IN  IF id.err
        THEN Unchanged(w, c) @@ [tid |-> << >>, err |-> TRUE, drew |-> TRUE]
        ELSE LET r == SetPair(w, c, <<TraceIDKey, id.id>>)
             IN  Unchanged(r, r.ctx) @@ [tid |-> id.id, err |-> FALSE, drew |-> TRUE]

\* GetOrGenerateTraceID: (ctx, tid, err); drew says generateID was called
GetOrGenerateTraceID(w, c, r1, r2) ==
    LET got == Get(w.heap, w.ctxs[c], TraceIDKey)
    IN  IF got[2] /\ got[1] # << >>
        THEN Unchanged(w, c) @@ [tid |-> got[1], err |-> FALSE, drew |-> FALSE]
        ELSE LET id == generateID(16, r1, r2)
             IN  IF id.err
                 THEN Unchanged(w, c) @@ [tid |-> << >>, err |-> TRUE, drew |-> TRUE]
                 ELSE LET r == SetPair(w, c, <<TraceIDKey, id.id>>)
                      IN  Unchanged(r, r.ctx) @@ [tid |-> id.id, err |-> FALSE, drew |-> TRUE]

\* a plausible slip: the flags are stored as they were read
GenerateTraceparentFromContextRawFlags(w, c, rs) ==
    LET a == GetOrGenerateTraceID(w, c, rs[1], rs[2])
    IN  IF a.err THEN a @@ [header |-> << >>, pb |-> << >>]
        ELSE LET pid   == generateID(8, rs[3], rs[4])
                 got   == GetTraceFlags(a.heap, a.ctxs[a.ctx])
                 flags == IF got = << >> THEN <<"0", "1">> ELSE got
             IN  IF pid.err
                 THEN [a EXCEPT !.err = TRUE] @@ [header |-> << >>, pb |-> << >>]
                 ELSE LET r == SetPair(a, a.ctx, <<SpanIDKey, pid.id, TraceFlagsKey, flags>>)
                      IN  Unchanged(r, r.ctx) @@
                          [tid |-> a.tid, err |-> FALSE, drew |-> a.drew, pb |-> pid.b,
                           header |-> Sprintf4(<<"0", "0">>, ToLower(a.tid), pid.id,
                                               ToLower(flags))]

\* a plausible slip: a span_id the context already stores is used again
GenerateTraceparentFromContextKeepsSpan(w, c, rs) ==
    LET a == GetOrGenerateTraceID(w, c, rs[1], rs[2])
    IN  IF a.err THEN a @@ [header |-> << >>, pb |-> << >>]
        ELSE LET old   == Get(a.heap, a.ctxs[a.ctx], SpanIDKey)
                 gen   == generateID(8, rs[3], rs[4])
                 pid   == IF old[2] THEN [gen EXCEPT !.id = old[1]] ELSE gen
                 got   == GetTraceFlags(a.heap, a.ctxs[a.ctx])
                 flags == IF got = << >> THEN <<"0", "1">> ELSE got
             IN  IF pid.err
                 THEN [a EXCEPT !.err = TRUE] @@ [header |-> << >>, pb |-> << >>]
                 ELSE LET r == SetPair(a, a.ctx, <<SpanIDKey, pid.id,
                                                   TraceFlagsKey, ToLower(flags)>>)
                      IN  Unchanged(r, r.ctx) @@
                          [tid |-> a.tid, err |-> FALSE, drew |-> a.drew, pb |-> pid.b,
                           header |-> Sprintf4(<<"0", "0">>, ToLower(a.tid), pid.id,
                                               ToLower(flags))]

\* GenerateTraceparentFromContext: (ctx, header, err); tid and drew are what
\* GetOrGenerateTraceID returned, pb the bytes encoded as the span id
GenerateTraceparentFromContext(w, c, rs) ==
    LET a == GetOrGenerateTraceID(w, c, rs[1], rs[2])
    IN  IF a.err THEN a @@ [header |-> << >>, pb |-> << >>]
        ELSE LET pid   == generateID(8, rs[3], rs[4])
                 got   == GetTraceFlags(a.heap, a.ctxs[a.ctx])
                 flags == IF got = << >> THEN <<"0", "1">> ELSE got
             IN  IF pid.err
                 THEN [a EXCEPT !.err = TRUE] @@ [header |-> << >>, pb |-> << >>]
                 ELSE LET r == SetPair(a, a.ctx, <<SpanIDKey, pid.id,
                                                   TraceFlagsKey, ToLower(flags)>>)
                      IN  Unchanged(r, r.ctx) @@
                          [tid |-> a.tid, err |-> FALSE, drew |-> a.drew, pb |-> pid.b,
                           header |-> Sprintf4(<<"0", "0">>, ToLower(a.tid), pid.id,
                                               ToLower(flags))]

(***************************************************************************)
(* Callers that pin, read and mint trace identifiers.                      *)
(***************************************************************************)
\* est[c] (history only): NotHeld when no caller holds context c; else the
\* trace id GetOrGenerateTraceID returned for c, or for the context c was
\* derived from by writes to other keys; NoTraceID when there is none
NotHeld == <<"not held">>

NoTraceID == <<"none">>

\* what callers store as trace_id: an id with an uppercase digit, the
\* all-zero id, the empty string, a string that is no hex
TraceIDValues ==
    {Patch(Fill("a", 32), 1, "F"), Fill("0", 32), << >>, <<"x">>,
     Patch(Fill("a", 32), 5, "g"), Fill("a", 31)}

\* what callers pin with WithTraceID: an id, or the empty string
PinnedTraceIDs == {Patch(Fill("a", 32), 1, "F"), << >>}

OtherKeys == {UserIDKey, TraceFlagsKey}

OtherValues == {<<"F", "F">>}

FlagValues == {<< >>, <<"0", "1">>, <<"F", "F">>, <<"0">>, <<"0", "g">>}

\* the reads generateID(n) makes: the second only after an all-zero first
IDReads(n) ==
    {rr \in RandReads(n) \X RandReads(n) :
        \/ (~rr[1].err /\ rr[1].b = Fill(0, n))
        \/ rr[2] = rr[1]}

\* the reads of one call: for the trace id, then for the span id
TraceIDReads == IDReads(16)

SpanIDReads == IDReads(8)

CallReads == {<<t[1], t[2], p[1], p[2]>> : t \in TraceIDReads, p \in SpanIDReads}

\* a read that is never made is not an input: it is fixed to the failed one
NotRead(n) == [err |-> TRUE, b |-> Fill(0, n)]

\* whether context c stores a trace id GetOrGenerateTraceID returns as it is
StoresTraceID(c) ==
    LET got == Get(heap, ctxs[c], TraceIDKey) IN got[2] /\ got[1] # << >>

\* the reads GetOrGenerateTraceID makes on context c: none when c stores a
\* trace id
TraceIDReadsOn(c) ==
    IF StoresTraceID(c) THEN {<<NotRead(16), NotRead(16)>>} ELSE TraceIDReads

\* the reads of a call that draws a trace id: none for the span id when the
\* trace id could not be drawn
DrawingCallReads ==
    {rs \in CallReads : generateID(16, rs[1], rs[2]).err
                           => <<rs[3], rs[4]>> = <<NotRead(8), NotRead(8)>>}

\* the reads GenerateTraceparentFromContext makes on context c
CallReadsOn(c) ==
    IF StoresTraceID(c)
    THEN {<<NotRead(16), NotRead(16), p[1], p[2]>> : p \in SpanIDReads}
    ELSE DrawingCallReads

\* the contexts callers hold: MaxTraceCtx bounds their number
HeldCtxs == {c \in Ctxs : est[c] # NotHeld}

Room == Cardinality(HeldCtxs) < MaxTraceCtx

\* the header of an incoming request
IncomingHeader ==
    Sprintf4(<<"0", "0">>, Patch(Fill("b", 32), 1, "C"), Fill("d", 16), <<"0", "0">>)

\* callers start from the background context, or from the context a
\* middleware made of it with WithTraceparent and the incoming header (the
\* background context is then held by no caller)
InitialTraceWorlds ==
    LET w == [heap |-> << >>, dheap |-> << >>, ctxs |-> <<Background>>]
    IN  {Unchanged(w, 1) @@ [err |-> FALSE], WithTraceparent(w, 1, IncomingHeader)}

InitTrace ==
    /\ \E r \in InitialTraceWorlds :
          /\ ~r.err
          /\ heap = r.heap
          /\ dheap = r.dheap
          /\ ctxs = r.ctxs
          /\ est = [i \in 1..Len(r.ctxs) |-> IF i = r.ctx THEN NoTraceID ELSE NotHeld]
    /\ last = [op |-> "init"]
    /\ hist = {}
    /\ handlers = << >>
    /\ arrays = << >>
    /\ out = << >>
    /\ mu = 0
    /\ closed = FALSE
    /\ thr = [t \in Threads |-> Idle]

TraceWithTraceID ==
    \E c \in HeldCtxs, traceID \in PinnedTraceIDs :
        /\ Room
        /\ \E r \in {WithTraceID(World, c, traceID)} :
               /\ Commit(r)
               /\ last' = [op |-> "WithTraceID", ctx |-> c, value |-> traceID, res |-> r.ctx]
        /\ est' = Append(est, NoTraceID)
        /\ UNCHANGED <<hist, thr, handlers, arrays, out, mu, closed>>

TraceSet ==
    \E c \in HeldCtxs, key \in OtherKeys, value \in OtherValues :
        /\ Room
        /\ \E r \in {Set(World, c, key, value)} :
               /\ Commit(r)
               /\ last' = [op |-> "Set", ctx |-> c, key |-> key, value |-> value,
                           res |-> r.ctx]
        /\ est' = Append(est, est[c])
        /\ UNCHANGED <<hist, thr, handlers, arrays, out, mu, closed>>

TraceGetOrGenerateTraceID ==
    \E c \in HeldCtxs : \E rr \in TraceIDReadsOn(c) :
        \E r \in {GetOrGenerateTraceID(World, c, rr[1], rr[2])} :
            /\ r.ctx # c => Room
            /\ Commit(r)
            /\ last' = [op |-> "GetOrGenerateTraceID", ctx |-> c, res |-> r.ctx,
                        tid |-> r.tid, err |-> r.err, drew |-> r.drew, est |-> est[c],
                        same |-> (r.heap = heap /\ r.dheap = dheap /\ r.ctxs = ctxs)]
            /\ est' = IF r.err THEN est
                      ELSE IF r.ctx = c THEN [est EXCEPT ![c] = r.tid]
                      ELSE Append(est, r.tid)
            /\ UNCHANGED <<hist, thr, handlers, arrays, out, mu, closed>>

TraceGenerateTraceparentFromContext ==
    /\ Room
    /\ \E c \in HeldCtxs : \E rs \in CallReadsOn(c) :
        \E r \in {GenerateTraceparentFromContext(World, c, rs)} :
            /\ Commit(r)
            /\ last' = [op |-> "GenerateTraceparentFromContext", ctx |-> c, res |-> r.ctx,
                        header |-> r.header, tid |-> r.tid, err |-> r.err,
                        drew |-> r.drew, pb |-> r.pb, est |-> est[c]]
            /\ est' = [i \in 1..Len(r.ctxs) |->
                          IF i = r.ctx /\ r.tid # << >> THEN r.tid
                          ELSE IF i > Len(ctxs) THEN NotHeld
                          ELSE IF i = c /\ r.tid # << >> /\ ~r.drew THEN r.tid
                          ELSE est[i]]
            /\ hist' = IF r.err THEN hist
                       ELSE hist \cup {[ctx |-> c, res |-> r.ctx, header |-> r.header,
                                        pb |-> r.pb]}
            /\ UNCHANGED <<thr, handlers, arrays, out, mu, closed>>

\* NewTraceContext and GenerateTraceparent neither read nor change the
\* store: they are called before it is used
TraceNewTraceContext ==
    /\ last.op = "init"
    /\ \E traceID \in TraceIDValues, traceFlags \in FlagValues, rs \in CallReads :
          last' = [op |-> "NewTraceContext", traceID |-> traceID, traceFlags |-> traceFlags,
                   rs |-> rs, out |-> NewTraceContext(traceID, traceFlags, rs)]
    /\ UNCHANGED <<heap, dheap, ctxs, est, hist, thr, handlers, arrays, out, mu, closed>>

TraceGenerateTraceparent ==
    /\ last.op = "init"
    /\ \E rs \in CallReads :
          last' = [op |-> "GenerateTraceparent", out |-> GenerateTraceparent(rs)]
    /\ UNCHANGED <<heap, dheap, ctxs, est, hist, thr, handlers, arrays, out, mu, closed>>

NextTrace ==
    \/ TraceWithTraceID
    \/ TraceSet
    \/ TraceGetOrGenerateTraceID
    \/ TraceGenerateTraceparentFromContext
    \/ TraceNewTraceContext
    \/ TraceGenerateTraceparent

SpecTrace == InitTrace /\ [][NextTrace]_vars

\* the trace-id and span-id fields of a header
HeaderTraceID(header) == Split(header)[2]

HeaderSpanID(header) == Split(header)[3]

\* C8: every trace context NewTraceContext returns without error, and every
\* header GenerateTraceparent or GenerateTraceparentFromContext returns, has
\* a trace id (when the call generated it) and a span id that are not all
\* zeros, whatever bytes the random source returns.
C8_GeneratedIDsNeverAllZero ==
    /\ (last.op = "NewTraceContext" /\ ~last.out.err)
          => /\ NotAllZeros(last.out.tc.TraceID)
             /\ NotAllZeros(last.out.tc.ParentID)
    /\ (last.op = "GenerateTraceparent" /\ ~last.out.err)
          => /\ NotAllZeros(HeaderTraceID(last.out.header))
             /\ NotAllZeros(HeaderSpanID(last.out.header))
    /\ (last.op = "GenerateTraceparentFromContext" /\ ~last.err)
          => /\ last.drew => NotAllZeros(HeaderTraceID(last.header))
             /\ NotAllZeros(HeaderSpanID(last.header))

\* two successful GenerateTraceparentFromContext calls on the same context
SameContextCalls == {p \in hist \X hist : p[1] # p[2] /\ p[1].ctx = p[2].ctx}

\* C9 as stated: two GenerateTraceparentFromContext calls on the same
\* context yield headers with identical trace ids and different span ids.
C9_SameTraceDifferentSpans ==
    \A p \in SameContextCalls :
        /\ HeaderTraceID(p[1].header) = HeaderTraceID(p[2].header)
        /\ HeaderSpanID(p[1].header) # HeaderSpanID(p[2].header)

\* C9 amended: two GenerateTraceparentFromContext calls on the same context
\* yield headers with identical trace ids when that context stores a
\* non-empty trace_id, namely that id in lowercase; the span id of each
\* header is the hex encoding of the bytes its own call drew, so the two
\* span ids differ exactly when the two draws differ.
C9_SameStoredTraceOwnSpans ==
    \A p \in SameContextCalls :
        /\ StoresTraceID(p[1].ctx)
              => /\ HeaderTraceID(p[1].header) = HeaderTraceID(p[2].header)
                 /\ HeaderTraceID(p[1].header)
                       = ToLower(Get(heap, ctxs[p[1].ctx], TraceIDKey)[1])
        /\ HeaderSpanID(p[1].header) = EncodeToString(p[1].pb)
        /\ (HeaderSpanID(p[1].header) = HeaderSpanID(p[2].header)) <=> (p[1].pb = p[2].pb)

\* two calls on a context that stores a trace id: one trace id, two span ids
C9_Witness ==
    \E p \in SameContextCalls :
        /\ StoresTraceID(p[1].ctx)
        /\ HeaderTraceID(p[1].header) = HeaderTraceID(p[2].header)
        /\ HeaderSpanID(p[1].header) # HeaderSpanID(p[2].header)
        /\ NotAllZeros(HeaderSpanID(p[1].header))
        /\ NotAllZeros(HeaderSpanID(p[2].header))

\* C10: once GetOrGenerateTraceID has returned (c1, t1), every later
\* GetOrGenerateTraceID on c1, or on a context derived from c1 by writes to
\* keys other than trace_id, returns t1 and its input context, draws no
\* identifier and leaves the store as it was.
C10_TraceIDStable ==
    (last.op = "GetOrGenerateTraceID" /\ last.est # NoTraceID)
        => /\ ~last.err
           /\ last.tid = last.est
           /\ last.res = last.ctx
           /\ ~last.drew
           /\ last.same

\* GetOrGenerateTraceID on a context made by a user_id write to a context
\* whose trace id an earlier GetOrGenerateTraceID drew
C10_Witness ==
    /\ last.op = "GetOrGenerateTraceID"
    /\ last.est # NoTraceID
    /\ last.tid = last.est
    /\ \E c1 \in Ctxs :
          /\ ctxs[last.ctx].parent = c1
          /\ est[c1] = last.est
          /\ ~Get(heap, ctxs[c1], UserIDKey)[2]
          /\ Get(heap, ctxs[last.ctx], UserIDKey)[2]
          /\ c1 > 1 /\ ~StoresTraceID(ctxs[c1].parent)

\* whether the reads generateID(n) makes fail: the first, or the redraw
\* after an all-zero first read
ReadFails(n, r1, r2) == r1.err \/ ((\A i \in 1..n : r1.b[i] = 0) /\ r2.err)

\* C11: NewTraceContext(traceID, flags) fails exactly when a non-empty
\* traceID is not 32 hex characters or is all zeros, or a non-empty flags is
\* not 2 hex characters, or a read of the random source fails; on success
\* the version is "00", the trace id is the lowercase of a supplied traceID,
\* and the flags are the lowercase of the supplied flags, "01" when omitted.
C11_NewTraceContextContract ==
    last.op = "NewTraceContext" =>
        LET traceID == last.traceID
            flags   == last.traceFlags
            bad     == \/ /\ traceID # << >>
                          /\ (~IsHexOfLen(traceID, 32) \/ ~NotAllZeros(traceID))
                       \/ (flags # << >> /\ ~IsHexOfLen(flags, 2))
                       \/ (traceID = << >> /\ ReadFails(16, last.rs[1], last.rs[2]))
                       \/ ReadFails(8, last.rs[3], last.rs[4])
        IN  /\ last.out.err <=> bad
            /\ ~last.out.err =>
                  /\ last.out.tc.Version = <<"0", "0">>
                  /\ traceID # << >> => last.out.tc.TraceID = ToLower(traceID)
                  /\ last.out.tc.TraceFlags
                        = IF flags = << >> THEN <<"0", "1">> ELSE ToLower(flags)

\* a supplied trace id and supplied flags, both with uppercase digits
C11_Witness ==
    /\ last.op = "NewTraceContext"
    /\ ~last.out.err
    /\ last.traceID = Patch(Fill("a", 32), 1, "F")
    /\ last.traceFlags = <<"F", "F">>
    /\ last.out.tc.TraceID = Patch(Fill("a", 32), 1, "f")
    /\ last.out.tc.TraceFlags = <<"f", "f">>

\* the keys GenerateTraceparentFromContext writes
TraceKeys == {TraceIDKey, SpanIDKey, TraceFlagsKey}

\* the carrier of context c without the trace keys
OtherEntries(c) ==
    LET m == Carrier(heap, ctxs[c]) IN [k \in (DOMAIN m) \ TraceKeys |-> m[k]]

\* C12 as stated: after a successful GenerateTraceparentFromContext(c) =
\* (c1, header), c1 stores trace_id, span_id and trace_flags equal to the
\* three fields of header, every other key is as in c, and
\* GetTraceparent(c1) returns (header, true).
C12_PersistsHeaderFields ==
    (last.op = "GenerateTraceparentFromContext" /\ ~last.err) =>
        /\ Get(heap, ctxs[last.res], TraceIDKey) = <<HeaderTraceID(last.header), TRUE>>
        /\ Get(heap, ctxs[last.res], SpanIDKey) = <<HeaderSpanID(last.header), TRUE>>
        /\ Get(heap, ctxs[last.res], TraceFlagsKey) = <<Split(last.header)[4], TRUE>>
        /\ OtherEntries(last.res) = OtherEntries(last.ctx)
        /\ GetTraceparent(heap, ctxs[last.res]) = <<last.header, TRUE>>

\* C12 amended: after a successful GenerateTraceparentFromContext(c) =
\* (c1, header), c1 stores span_id and trace_flags equal to the span-id and
\* flags of header and a trace_id whose lowercase is the trace-id of header
\* (a stored trace_id keeps its letter case); every other key is as in c,
\* and GetTraceparent(c1) returns (header, true).
C12_PersistsUpToCase ==
    (last.op = "GenerateTraceparentFromContext" /\ ~last.err) =>
        LET tid   == Get(heap, ctxs[last.res], TraceIDKey)
            pid   == Get(heap, ctxs[last.res], SpanIDKey)
            flags == Get(heap, ctxs[last.res], TraceFlagsKey)
        IN  /\ tid[2] /\ pid[2] /\ flags[2]
            /\ last.header = Sprintf4(<<"0", "0">>, ToLower(tid[1]), pid[1], flags[1])
            /\ OtherEntries(last.res) = OtherEntries(last.ctx)
            /\ GetTraceparent(heap, ctxs[last.res]) = <<last.header, TRUE>>

\* a call on a context that stores a trace_id with an uppercase digit
C12_Witness ==
    /\ last.op = "GenerateTraceparentFromContext"
    /\ ~last.err
    /\ Get(heap, ctxs[last.ctx], TraceIDKey)[1] # ToLower(Get(heap, ctxs[last.ctx], TraceIDKey)[1])
    /\ Get(heap, ctxs[last.res], TraceIDKey)[1] # HeaderTraceID(last.header)
    /\ GetTraceparent(heap, ctxs[last.res]) = <<last.header, TRUE>>

(***************************************************************************)
(* Callers that pin trace ids of every shape with WithTraceID.             *)
(***************************************************************************)
\* what callers pass to WithTraceID: full traceparent headers (one with an
\* uppercase digit), a header with an all-zero trace id, a string with a
\* separator that is no header, a bare trace id, the empty string
PinValues ==
    {IncomingHeader,
     Sprintf4(<<"0", "0">>, Fill("a", 32), Fill("b", 16), <<"0", "1">>),
     Sprintf4(<<"0", "0">>, Fill("0", 32), Fill("b", 16), <<"0", "1">>),
     <<"t", "-", "7">>,
     Fill("a", 32),
     << >>}

PinWithTraceID ==
    \E c \in Ctxs, traceID \in PinValues :
        /\ Len(ctxs) <= MaxTraceCtx
        /\ \E r \in {WithTraceID(World, c, traceID)} :
               /\ Commit(r)
               /\ last' = [op |-> "WithTraceID", ctx |-> c, value |-> traceID, res |-> r.ctx]
        /\ est' = Append(est, NoTraceID)
        /\ UNCHANGED <<hist, thr, handlers, arrays, out, mu, closed>>

NextPin == PinWithTraceID

SpecPin == InitTrace /\ [][NextPin]_vars

\* C13: WithTraceID given a full traceparent header stores the parsed trace
\* id under trace_id, the parsed span id under span_id and the parsed flags
\* under trace_flags; given any other string it stores the string unchanged
\* under trace_id and leaves span_id and trace_flags as they were.
C13_WithTraceIDParsesHeader ==
    last.op = "WithTraceID" =>
        LET p == ParseTraceparent(last.value)
        IN  IF p.ok
            THEN /\ Get(heap, ctxs[last.res], TraceIDKey) = <<p.tc.TraceID, TRUE>>
                 /\ Get(heap, ctxs[last.res], SpanIDKey) = <<p.tc.ParentID, TRUE>>
                 /\ Get(heap, ctxs[last.res], TraceFlagsKey) = <<p.tc.TraceFlags, TRUE>>
            ELSE /\ Get(heap, ctxs[last.res], TraceIDKey) = <<last.value, TRUE>>
                 /\ Get(heap, ctxs[last.res], SpanIDKey) = Get(heap, ctxs[last.ctx], SpanIDKey)
                 /\ Get(heap, ctxs[last.res], TraceFlagsKey)
                       = Get(heap, ctxs[last.ctx], TraceFlagsKey)

(***************************************************************************)
(* Go slices.  A slice is the address of its backing array and a length;   *)
(* its capacity is the length of the array (every slice here starts at the *)
(* first element).  Address 0 is the nil slice.                            *)
(***************************************************************************)
NilSlice == [arr |-> 0, len |-> 0]

\* the zero value make() fills a new array with
ZeroValue == <<"zero value">>

SliceCap(a, s) == IF s.arr = 0 THEN 0 ELSE Len(a[s.arr])

\* the elements a range over the slice reads
Elems(a, s) == [i \in 1..s.len |-> a[s.arr][i]]

\* make([]T, n)
Make(a, n) ==
    [arrays |-> Append(a, [i \in 1..n |-> ZeroValue]),
     s      |-> [arr |-> Len(a) + 1, len |-> n]]

\* copy(dst[from:], src): writes into the backing array of dst
CopyInto(a, dst, from, src) ==
    IF dst.arr = 0 THEN a
    ELSE [a EXCEPT ![dst.arr] =
             [i \in 1..Len(@) |->
                 IF i > from /\ i <= from + Len(src) /\ i <= dst.len
                 THEN src[i - from] ELSE @[i]]]

\* append(s, xs...): in place when the capacity allows, else a new array of
\* the needed length or twice the old capacity, whichever is larger
AppendSlice(a, s, xs) ==
    LET needed == s.len + Len(xs)
        oldcap == SliceCap(a, s)
        newcap == IF needed > 2 * oldcap THEN needed ELSE 2 * oldcap
    IN  IF Len(xs) = 0 THEN [arrays |-> a, s |-> s]
        ELSE IF needed <= oldcap
        THEN [arrays |-> [a EXCEPT ![s.arr] =
                             [i \in 1..Len(@) |->
                                 IF i > s.len /\ i <= needed THEN xs[i - s.len] ELSE @[i]]],
              s      |-> [arr |-> s.arr, len |-> needed]]
        ELSE [arrays |-> Append(a, [i \in 1..newcap |->
                                       IF i <= s.len THEN a[s.arr][i]
                                       ELSE IF i <= needed THEN xs[i - s.len]
                                       ELSE ZeroValue]),
              s      |-> [arr |-> Len(a) + 1, len |-> needed]]

(***************************************************************************)
(* slog levels, values and attributes.                                     *)
(***************************************************************************)
LevelDebug == 0 - 4

LevelInfo == 0

LevelWarn == 4

LevelError == 8

\* Level.String() of the four named levels
LevelString(level) ==
    CASE level = LevelDebug -> "DEBUG"
      [] level = LevelInfo  -> "INFO"
      [] level = LevelWarn  -> "WARN"
      [] level = LevelError -> "ERROR"

\* the Go values an attribute carries: a string, a []string, a channel
StringValue(v) == [kind |-> "string", v |-> v]

StringsValue(xs) == [kind |-> "[]string", v |-> xs]

ChanValue == [kind |-> "chan"]

\* errors.New(text)
ErrorValue(text) == [kind |-> "error", text |-> text]

\* a []any, a []error or a []map[string]any with these elements
SliceValue(kind, items) == [kind |-> kind, items |-> items]

\* a map[string]any or a map[string]error with these entries
MapValue(kind, members) == [kind |-> kind, members |-> members]

SliceKinds == {"[]any", "[]error", "[]map[string]any"}

MapKinds == {"map[string]any", "map[string]error"}

\* slog.String(key, value)
SlogString(key, value) == [Key |-> key, Value |-> StringValue(value)]

\* slog.Any(key, value)
SlogAny(key, value) == [Key |-> key, Value |-> value]

ServiceKey == <<"s", "e", "r", "v", "i", "c", "e">>

VersionKey == <<"v", "e", "r", "s", "i", "o", "n">>

TraceKey == <<"t", "r", "a", "c", "e">>

TimestampKey == <<"t", "i", "m", "e", "s", "t", "a", "m", "p">>

LevelKey == <<"l", "e", "v", "e", "l">>

MessageKey == <<"m", "e", "s", "s", "a", "g", "e">>

(***************************************************************************)
(* The handler (internal/handler).                                         *)
(***************************************************************************)
\* a nil *slog.HandlerOptions, and a nil Level inside the options
NilOpts == [nil |-> "options"]

NoLevel == [nil |-> "level"]

\* a slog.Leveler holding the level
Leveler(level) == [level |-> level]

\* the one sink handler a root handler and all its forks refer to
SinkRef == 1

\* NewHandler: nil options become empty options, a regular file selects the
\* file sink, anything else the console sink
NewHandler(config, opts, w) ==
    [config  |-> config,
     opts    |-> IF opts = NilOpts THEN [Level |-> NoLevel] ELSE opts,
     writer  |-> w,
     handler |-> SinkRef,
     attrs   |-> [arr |-> 1, len |-> 0],
     groups  |-> [arr |-> 2, len |-> 0],
     isFile  |-> (w = "file")]

\* the two empty arrays NewHandler makes for attrs and groups
NewHandlerArrays == Make(Make(<< >>, 0).arrays, 0).arrays

\* a plausible slip: the configured minimum level is ignored
EnabledAtInfo(x, level) == level >= LevelInfo

\* Enabled: the level against the configured minimum, Info by default
Enabled(x, level) ==
    LET minLevel == IF x.opts.Level # NoLevel THEN x.opts.Level.level ELSE LevelInfo
    IN  level >= minLevel

\* FromContext: the three fields read from the store, "" when absent
FromContext(h, cs, c) ==
    IF c = 0 THEN [TraceID |-> << >>, UserID |-> << >>, Action |-> << >>]
    ELSE LET field(key) == LET got == GetPair(h, cs[c], <<key>>)
                           IN  IF key \in DOMAIN got THEN got[key] ELSE << >>
         IN  [TraceID |-> field(TraceIDKey),
              UserID  |-> field(UserIDKey),
              Action  |-> field(ActionKey)]

\* the frames runtime.Caller(0), runtime.Caller(1), ... report inside
\* GetStackTrace when an event is logged
CallStack == <<"GetStackTrace", "prepareLogAttrs", "Handle", "log", "main">>

\* a plausible slip: the frames are taken from the innermost one, the skip
\* is not applied
GetStackTraceNoSkip(skip, depth) ==
    LET upto == IF depth <= Len(CallStack) THEN depth ELSE Len(CallStack)
    IN  SubSeq(CallStack, 1, upto)

\* GetStackTrace: at most depth frames from frame skip on, stopping where
\* the stack ends
GetStackTrace(skip, depth) ==
    LET upto == IF skip + depth <= Len(CallStack) THEN skip + depth ELSE Len(CallStack)
    IN  IF skip >= Len(CallStack) THEN << >> ELSE SubSeq(CallStack, skip + 1, upto)

\* strings.Join
RECURSIVE StringsJoin(_, _)
StringsJoin(elems, sep) ==
    IF Len(elems) = 0 THEN << >>
    ELSE IF Len(elems) = 1 THEN elems[1]
    ELSE elems[1] \o sep \o StringsJoin(Tail(elems), sep)

\* applyGroups: every key behind the dot-joined group path
applyGroups(groups, attrs) ==
    IF Len(groups) = 0 THEN attrs
    ELSE LET groupPrefix == StringsJoin(groups, <<".">>)
         IN  [i \in 1..Len(attrs) |->
                 [Key |-> groupPrefix \o <<".">> \o attrs[i].Key, Value |-> attrs[i].Value]]

\* the depth configured for the level; none for a level that is not one of
\* the four named ones
StackDepth(config, level) ==
    CASE level = LevelError -> config.Stack.Depth.Error
      [] level = LevelWarn  -> config.Stack.Depth.Warn
      [] level = LevelInfo  -> config.Stack.Depth.Info
      [] level = LevelDebug -> config.Stack.Depth.Debug
      [] OTHER -> 0

\* a plausible slip: the handler's attributes are prefixed with the groups too
prepareLogAttrsGroupsAll(a, x, h, cs, c, level, recordAttrs) ==
    LET contextData == FromContext(h, cs, c)
        fromCtx ==
            (IF contextData.TraceID # << >>
             THEN <<SlogString(TraceIDKey, contextData.TraceID)>> ELSE << >>)
            \o (IF contextData.UserID # << >>
                THEN <<SlogString(UserIDKey, contextData.UserID)>> ELSE << >>)
            \o (IF contextData.Action # << >>
                THEN <<SlogString(ActionKey, contextData.Action)>> ELSE << >>)
        stackDepth == IF x.config.Stack.Enabled THEN StackDepth(x.config, level) ELSE 0
        captured == stackDepth > 0
        stack == IF captured
                 THEN <<SlogAny(TraceKey,
                                StringsValue(GetStackTrace(x.config.Stack.Skip, stackDepth)))>>
                 ELSE << >>
        groups == Elems(a, x.groups)
    IN  [attrs |-> fromCtx \o stack
                   \o <<SlogString(ServiceKey, x.config.DefaultFields.Service),
                        SlogString(VersionKey, x.config.DefaultFields.Version)>>
                   \o applyGroups(groups, Elems(a, x.attrs) \o recordAttrs),
         captured |-> captured]

\* a plausible slip: the event's attributes are merged before the handler's
prepareLogAttrsRecordFirst(a, x, h, cs, c, level, recordAttrs) ==
    LET contextData == FromContext(h, cs, c)
        fromCtx ==
            (IF contextData.TraceID # << >>
             THEN <<SlogString(TraceIDKey, contextData.TraceID)>> ELSE << >>)
            \o (IF contextData.UserID # << >>
                THEN <<SlogString(UserIDKey, contextData.UserID)>> ELSE << >>)
            \o (IF contextData.Action # << >>
                THEN <<SlogString(ActionKey, contextData.Action)>> ELSE << >>)
        stackDepth == IF x.config.Stack.Enabled THEN StackDepth(x.config, level) ELSE 0
        captured == stackDepth > 0
        stack == IF captured
                 THEN <<SlogAny(TraceKey,
                                StringsValue(GetStackTrace(x.config.Stack.Skip, stackDepth)))>>
                 ELSE << >>
        groups == Elems(a, x.groups)
    IN  [attrs |-> fromCtx \o stack
                   \o <<SlogString(ServiceKey, x.config.DefaultFields.Service),
                        SlogString(VersionKey, x.config.DefaultFields.Version)>>
                   \o (IF Len(groups) > 0 THEN applyGroups(groups, recordAttrs)
                       ELSE recordAttrs)
                   \o Elems(a, x.attrs),
         captured |-> captured]

\* prepareLogAttrs: the context's fields, the stack, service and version,
\* the handler's attributes, the event's attributes behind the group path
prepareLogAttrs(a, x, h, cs, c, level, recordAttrs) ==
    LET contextData == FromContext(h, cs, c)
        fromCtx ==
            (IF contextData.TraceID # << >>
             THEN <<SlogString(TraceIDKey, contextData.TraceID)>> ELSE << >>)
            \o (IF contextData.UserID # << >>
                THEN <<SlogString(UserIDKey, contextData.UserID)>> ELSE << >>)
            \o (IF contextData.Action # << >>
                THEN <<SlogString(ActionKey, contextData.Action)>> ELSE << >>)
        stackDepth == IF x.config.Stack.Enabled THEN StackDepth(x.config, level) ELSE 0
        captured == stackDepth > 0
        stack == IF captured
                 THEN <<SlogAny(TraceKey,
                                StringsValue(GetStackTrace(x.config.Stack.Skip, stackDepth)))>>
                 ELSE << >>
        groups == Elems(a, x.groups)
    IN  [attrs |-> fromCtx \o stack
                   \o <<SlogString(ServiceKey, x.config.DefaultFields.Service),
                        SlogString(VersionKey, x.config.DefaultFields.Version)>>
                   \o Elems(a, x.attrs)
                   \o (IF Len(groups) > 0 THEN applyGroups(groups, recordAttrs)
                       ELSE recordAttrs),
         captured |-> captured]

\* clone: the same sink, options and configuration, new arrays for the
\* attributes and the groups
clone(hw, h) ==
    LET x  == hw.handlers[h]
        as == AppendSlice(hw.arrays, NilSlice, Elems(hw.arrays, x.attrs))
        gs == AppendSlice(as.arrays, NilSlice, Elems(as.arrays, x.groups))
    IN  [handlers |-> Append(hw.handlers, [x EXCEPT !.attrs = as.s, !.groups = gs.s]),
         arrays   |-> gs.arrays,
         h        |-> Len(hw.handlers) + 1]

\* a plausible slip: the new attributes are appended to the parent's slice
WithAttrsAppended(hw, h, attrs) ==
    LET x  == hw.handlers[h]
        ap == AppendSlice(hw.arrays, x.attrs, attrs)
        cl == clone([handlers |-> hw.handlers, arrays |-> ap.arrays], h)
    IN  [handlers |-> [cl.handlers EXCEPT ![cl.h].attrs = ap.s],
         arrays   |-> cl.arrays,
         h        |-> cl.h]

\* WithAttrs: a new array holding the parent's attributes and then the new
\* ones, given to a clone of the parent
WithAttrs(hw, h, attrs) ==
    LET x  == hw.handlers[h]
        m  == Make(hw.arrays, x.attrs.len + Len(attrs))
        c1 == CopyInto(m.arrays, m.s, 0, Elems(hw.arrays, x.attrs))
        c2 == CopyInto(c1, m.s, x.attrs.len, attrs)
        cl == clone([handlers |-> hw.handlers, arrays |-> c2], h)
    IN  [handlers |-> [cl.handlers EXCEPT ![cl.h].attrs = m.s],
         arrays   |-> cl.arrays,
         h        |-> cl.h]

\* WithGroup: the handler itself for the empty name, else a clone with a
\* new array holding the parent's groups and then the name
WithGroup(hw, h, name) ==
    IF name = << >> THEN [handlers |-> hw.handlers, arrays |-> hw.arrays, h |-> h]
    ELSE LET x  == hw.handlers[h]
             m  == Make(hw.arrays, x.groups.len + 1)
             c1 == CopyInto(m.arrays, m.s, 0, Elems(hw.arrays, x.groups))
             c2 == CopyInto(c1, m.s, x.groups.len, <<name>>)
             cl == clone([handlers |-> hw.handlers, arrays |-> c2], h)
         IN  [handlers |-> [cl.handlers EXCEPT ![cl.h].groups = m.s],
              arrays   |-> cl.arrays,
              h        |-> cl.h]

(***************************************************************************)
(* The sinks.  What a sink hands to Write is kept structured: a JSON text  *)
(* is the tree it denotes, a console record is its sections.               *)
(***************************************************************************)
\* r.Time.Format(layout): the event's time in the layout
TimeFormat(layout, t) == <<"time", layout, t>>

\* what encoding/json cannot encode: a channel, at any depth
RECURSIVE Serializable(_)
Serializable(v) ==
    IF v.kind \in SliceKinds THEN \A i \in 1..Len(v.items) : Serializable(v.items[i])
    ELSE IF v.kind \in MapKinds THEN \A k \in DOMAIN v.members : Serializable(v.members[k])
    ELSE v.kind # "chan"

\* the JSON encoding of a Go value; the value errors.New makes is a struct
\* without exported fields, which encodes as the empty object
RECURSIVE EncodeJSON(_)
EncodeJSON(v) ==
    IF v.kind = "string" THEN [json |-> "string", text |-> v.v]
    ELSE IF v.kind = "error" THEN [json |-> "object", members |-> EmptyMap]
    ELSE IF v.kind \in SliceKinds
    THEN [json |-> "array", items |-> [i \in 1..Len(v.items) |-> EncodeJSON(v.items[i])]]
    ELSE IF v.kind \in MapKinds
    THEN [json |-> "object", members |-> [k \in DOMAIN v.members |-> EncodeJSON(v.members[k])]]
    ELSE [json |-> "array",
          items |-> [i \in 1..Len(v.v) |-> [json |-> "string", text |-> v.v[i]]]]

\* json.Marshal and json.MarshalIndent of a map[string]any: an error when
\* a value cannot be encoded, else one object with the map's keys
Marshal(logData) ==
    IF \E k \in DOMAIN logData : ~Serializable(logData[k])
    THEN [err |-> TRUE, json |-> << >>]
    ELSE [err |-> FALSE,
          json |-> [json |-> "object",
                    members |-> [k \in DOMAIN logData |-> EncodeJSON(logData[k])]]]

\* r.Attrs(func(a) { logData[a.Key] = a.Value.Any() }) from attribute i on
RECURSIVE PutAttrs(_, _, _)
PutAttrs(logData, attrs, i) ==
    IF i > Len(attrs) THEN logData
    ELSE PutAttrs(MapPut(logData, attrs[i].Key, attrs[i].Value), attrs, i + 1)

NoBytes == <<"nothing written">>

\* fileHandler.Handle up to the call of Write: the bytes to write, or the
\* error of json.Marshal and nothing to write
fileHandlerRender(r) ==
    LET base == MapPut(MapPut(MapPut(EmptyMap,
                    TimestampKey, StringValue(TimeFormat("2006-01-02T15:04:05.000Z07:00", r.Time))),
                    LevelKey, StringValue(LevelString(r.Level))),
                    MessageKey, StringValue(r.Message))
        logData == PutAttrs(base, r.attrs, 1)
        m == Marshal(logData)
    IN  IF m.err THEN [err |-> TRUE, wrote |-> FALSE, bytes |-> NoBytes, locks |-> FALSE]
        ELSE [err |-> FALSE, wrote |-> TRUE, locks |-> TRUE,
              bytes |-> [sink |-> "file", json |-> m.json, nl |-> TRUE]]

ContextKeys == {TraceIDKey, UserIDKey, ActionKey}

\* fmt.Sprintf("%v", value)
SprintV(v) ==
    IF v.kind = "string" THEN v.v
    ELSE IF v.kind = "[]string" THEN <<"[">> \o StringsJoin(v.v, <<" ">>) \o <<"]">>
    ELSE <<"0", "x", "c", "0">>

\* the attributes of the record whose key is (inside) or is not one of the
\* keys, as the map the callback fills: the last value of a key stays
RECURSIVE CollectAttrs(_, _, _, _, _)
CollectAttrs(m, attrs, i, keys, inside) ==
    IF i > Len(attrs) THEN m
    ELSE CollectAttrs(IF (attrs[i].Key \in keys) = inside
                      THEN MapPut(m, attrs[i].Key, attrs[i].Value) ELSE m,
                      attrs, i + 1, keys, inside)

\* buildLogFirstLine: the time if configured, the level, the message, then
\* trace_id, user_id, action in this order when the record carries them
buildLogFirstLine(pretty, r) ==
    LET contextAttrs == CollectAttrs(EmptyMap, r.attrs, 1, ContextKeys, TRUE)
        order == <<TraceIDKey, UserIDKey, ActionKey>>
        part(i) == IF order[i] \in DOMAIN contextAttrs
                   THEN <<SprintV(contextAttrs[order[i]])>> ELSE << >>
    IN  [timestamp |-> IF pretty.IncludeTimestamp
                       THEN <<TimeFormat("2006-01-02 15:04:05.000", r.Time)>> ELSE << >>,
         level     |-> LevelString(r.Level),
         message   |-> r.Message,
         context   |-> part(1) \o part(2) \o part(3)]

\* the trace a record carries: the last "trace" attribute holding a []string
RECURSIVE TraceOf(_, _, _)
TraceOf(trace, attrs, i) ==
    IF i > Len(attrs) THEN trace
    ELSE TraceOf(IF attrs[i].Key = TraceKey /\ attrs[i].Value.kind = "[]string"
                 THEN attrs[i].Value.v ELSE trace,
                 attrs, i + 1)

\* the keys Text and Json leave out of the data section
SkippedKeys == ContextKeys \cup {ServiceKey, VersionKey, TraceKey}

\* buildTraceSection: nothing for no frames, else the title line and one
\* numbered line per frame, each with its line terminator
buildTraceSection(trace) ==
    IF Len(trace) = 0 THEN << >>
    ELSE <<[title |-> "Stack Trace:", frames |-> [i \in 1..Len(trace) |-> <<i, trace[i]>>]]>>

\* the pieces a section of a console record ends its last line with
EndsLine == {"NL", "trace", "data"}

\* a plausible slip: version is not among the keys Text leaves out
TextShowsVersion(pretty, r) ==
    LET attrs == CollectAttrs(EmptyMap, r.attrs, 1, SkippedKeys \ {VersionKey}, FALSE)
        trace == TraceOf(<< >>, r.attrs, 1)
        layout == <<"first">>
                  \o (IF Len(trace) > 0 THEN <<"NL", "trace">> ELSE << >>)
                  \o (IF DOMAIN attrs # {} THEN <<"NL", "data">>
                      ELSE IF Len(trace) = 0 THEN <<"NL">> ELSE << >>)
    IN  [err |-> FALSE, wrote |-> TRUE, locks |-> FALSE,
         bytes |-> [sink   |-> "text",
                    first  |-> buildLogFirstLine(pretty, r),
                    trace  |-> IF Len(trace) > 0 THEN buildTraceSection(trace) ELSE << >>,
                    data   |-> {<<k, SprintV(attrs[k])>> : k \in DOMAIN attrs},
                    layout |-> layout,
                    nl     |-> layout[Len(layout)] \in EndsLine]]

\* a plausible slip: the record with neither trace nor data lines is left
\* without its line terminator
TextUnterminated(pretty, r) ==
    LET attrs == CollectAttrs(EmptyMap, r.attrs, 1, SkippedKeys, FALSE)
        trace == TraceOf(<< >>, r.attrs, 1)
        layout == <<"first">>
                  \o (IF Len(trace) > 0 THEN <<"NL", "trace">> ELSE << >>)
                  \o (IF DOMAIN attrs # {} THEN <<"NL", "data">> ELSE << >>)
    IN  [err |-> FALSE, wrote |-> TRUE, locks |-> FALSE,
         bytes |-> [sink   |-> "text",
                    first  |-> buildLogFirstLine(pretty, r),
                    trace  |-> IF Len(trace) > 0 THEN buildTraceSection(trace) ELSE << >>,
                    data   |-> {<<k, SprintV(attrs[k])>> : k \in DOMAIN attrs},
                    layout |-> layout,
                    nl     |-> layout[Len(layout)] \in EndsLine]]

\* prettyHandler.Text up to the call of Write.  The data lines come out in
\* the iteration order of a Go map, which is not determined: they are kept
\* as a set.  layout names the pieces in the order they are written: the
\* first line, line terminators, the trace section, the data lines
Text(pretty, r) ==
    LET attrs == CollectAttrs(EmptyMap, r.attrs, 1, SkippedKeys, FALSE)
        trace == TraceOf(<< >>, r.attrs, 1)
        layout == <<"first">>
                  \o (IF Len(trace) > 0 THEN <<"NL", "trace">> ELSE << >>)
                  \o (IF DOMAIN attrs # {} THEN <<"NL", "data">>
                      ELSE IF Len(trace) = 0 THEN <<"NL">> ELSE << >>)
    IN  [err |-> FALSE, wrote |-> TRUE, locks |-> FALSE,
         bytes |-> [sink   |-> "text",
                    first  |-> buildLogFirstLine(pretty, r),
                    trace  |-> IF Len(trace) > 0 THEN buildTraceSection(trace) ELSE << >>,
                    data   |-> {<<k, SprintV(attrs[k])>> : k \in DOMAIN attrs},
                    layout |-> layout,
                    nl     |-> layout[Len(layout)] \in EndsLine]]

\* prettyHandler.Json up to the call of Write: the error of
\* json.MarshalIndent is dropped and the data section is then empty
\* prettyHandler.convertValueForJSON: the type switch has the cases error,
\* map[string]any and []any; a value of any other type is returned as it is
RECURSIVE convertValueForJSON(_)
convertValueForJSON(value) ==
    IF value.kind = "error" THEN StringValue(value.text)
    ELSE IF value.kind = "map[string]any"
    THEN MapValue("map[string]any",
                  [k \in DOMAIN value.members |-> convertValueForJSON(value.members[k])])
    ELSE IF value.kind = "[]any"
    THEN SliceValue("[]any",
                    [i \in 1..Len(value.items) |-> convertValueForJSON(value.items[i])])
    ELSE value

Json(pretty, r) ==
    LET collected == CollectAttrs(EmptyMap, r.attrs, 1, SkippedKeys, FALSE)
        logData == [k \in DOMAIN collected |-> convertValueForJSON(collected[k])]
        trace == TraceOf(<< >>, r.attrs, 1)
        layout == <<"first">>
                  \o (IF Len(trace) > 0 THEN <<"NL", "trace">> ELSE << >>)
                  \o (IF DOMAIN logData # {} THEN <<"NL", "Data:", "NL", "json">> ELSE << >>)
                  \o <<"NL">>
    IN  [err |-> FALSE, wrote |-> TRUE, locks |-> FALSE,
         bytes |-> [sink   |-> "json",
                    first  |-> buildLogFirstLine(pretty, r),
                    trace  |-> IF Len(trace) > 0 THEN buildTraceSection(trace) ELSE << >>,
                    data   |-> IF DOMAIN logData # {} THEN <<Marshal(logData).json>> ELSE << >>,
                    layout |-> layout,
                    nl     |-> layout[Len(layout)] \in EndsLine]]

\* prettyHandler.Handle
prettyHandlerRender(pretty, r) == IF pretty.IsJsonOutput THEN Json(pretty, r) ELSE Text(pretty, r)

\* Handler.Handle up to the sink's call of Write: the attributes built,
\* whether a stack was captured, the sink's bytes or its error
HandleRender(a, x, h, cs, c, r) ==
    LET p == prepareLogAttrs(a, x, h, cs, c, r.Level, r.attrs)
        newRecord == [Time |-> r.Time, Level |-> r.Level, Message |-> r.Message,
                      attrs |-> p.attrs]
        s == IF x.isFile THEN fileHandlerRender(newRecord)
             ELSE prettyHandlerRender(x.config.Pretty, newRecord)
    IN  [merged |-> TRUE, built |-> p.attrs, captured |-> p.captured] @@ s

\* what a call that stops at the severity gate leaves behind
Gated ==
    [merged |-> FALSE, built |-> << >>, captured |-> FALSE,
     err |-> FALSE, wrote |-> FALSE, bytes |-> NoBytes, locks |-> FALSE]

\* slog.Logger's logging methods: Enabled first, Handle only when it says so
LoggerLog(a, x, h, cs, c, r) ==
    IF ~Enabled(x, r.Level) THEN Gated ELSE HandleRender(a, x, h, cs, c, r)

(***************************************************************************)
(* A program that logs through a handler and its forks.                    *)
(***************************************************************************)
\* the configurations: stack capture off, or on with a skip that leaves
\* frames for every depth, fewer frames than the depth, or no frame at all;
\* text or JSON console output
HandlerConfigs ==
    {[Stack |-> [Enabled |-> stack[1], Skip |-> stack[2],
                 Depth |-> [Error |-> 2, Warn |-> 1, Info |-> 1, Debug |-> 0]],
      DefaultFields |-> [Service |-> <<"S">>, Version |-> <<"1">>],
      Pretty |-> [IncludeTimestamp |-> json, IsJsonOutput |-> json]]
        : stack \in {<<FALSE, 2>>, <<TRUE, 2>>, <<TRUE, 4>>, <<TRUE, 5>>}, json \in BOOLEAN}

\* the sinks a configuration is used with: the console in both its modes,
\* the file sink (which does not read the console's mode)
HandlerSetups ==
    {<<config, w>> \in HandlerConfigs \X {"file", "buffer"} :
        w = "file" => ~config.Pretty.IsJsonOutput}

HandlerOpts == {NilOpts, [Level |-> Leveler(LevelWarn)]}

\* the attributes the program's WithAttrs calls add
Attr1 == SlogString(<<"k">>, <<"1">>)

Attr2 == SlogString(ServiceKey, <<"2">>)

\* the handlers of a program that forked its root handler four times:
\* WithAttrs, then WithGroup, then WithAttrs, then WithGroup
ForkedHandlers(config, opts, w) ==
    LET root == [handlers |-> <<NewHandler(config, opts, w)>>, arrays |-> NewHandlerArrays]
        h2 == WithAttrs(root, 1, <<Attr1>>)
        h3 == WithGroup(h2, h2.h, <<"g">>)
        h4 == WithAttrs(h3, h3.h, <<Attr2>>)
    IN  WithGroup(h4, h4.h, <<"h">>)

\* the contexts the program logs with: Background, one carrying action,
\* trace id and user id, one carrying an empty trace id and a user id
HandlerContexts ==
    LET w0 == [heap |-> << >>, dheap |-> << >>, ctxs |-> <<Background>>]
        w1 == WithAction(w0, 1, <<"A">>)
        w2 == WithTraceID(w1, w1.ctx, <<"T">>)
        w3 == WithUserID(w2, w2.ctx, <<"U">>)
        w4 == WithTraceID(w3, 1, << >>)
    IN  WithUserID(w4, w4.ctx, <<"U">>)

\* the contexts handed to the logger: nil and the two enriched ones
LogCtxs == {0, 4, 6}

\* the handlers the program logs through: the root, the fork with an
\* attribute, the fork with an attribute and then a group, the fork with
\* all four additions
LogHandlers == {1, 2, 3, 5}

Levels == {LevelDebug, LevelInfo, LevelWarn, LevelError}

\* the attributes of the events: none, two of which one has a key the file
\* sink uses itself, one whose value encoding/json cannot encode
RecordAttrLists ==
    {<< >>,
     <<SlogString(<<"k">>, <<"v">>), SlogString(MessageKey, <<"w">>)>>,
     <<SlogAny(<<"c">>, ChanValue)>>}

Records ==
    {[Time |-> "t0", Level |-> level, Message |-> <<"o", "k">>, attrs |-> attrs]
        : level \in Levels, attrs \in RecordAttrLists}

InitHandler ==
    \E setup \in HandlerSetups, opts \in HandlerOpts :
        LET hw == ForkedHandlers(setup[1], opts, setup[2])
        IN  /\ handlers = hw.handlers
            /\ arrays = hw.arrays
            /\ heap = HandlerContexts.heap
            /\ dheap = HandlerContexts.dheap
            /\ ctxs = HandlerContexts.ctxs
            /\ out = << >>
            /\ mu = 0
            /\ closed = FALSE
            /\ last = [op |-> "init", n |-> 0]
            /\ est = << >>
            /\ hist = {}
            /\ thr = [t \in Threads |-> Idle]

\* the record a whole, uninterrupted Write leaves at the destination
Whole(bytes) == [part |-> "whole", by |-> 0, bytes |-> bytes]

\* an event logged through slog.Logger
HandlerLog ==
    /\ last.n < MaxEvents
    /\ \E h \in LogHandlers, c \in LogCtxs, r \in Records :
           \E res \in {LoggerLog(arrays, handlers[h], heap, ctxs, c, r)} :
               /\ out' = IF res.wrote THEN Append(out, Whole(res.bytes)) ELSE out
               /\ last' = [op |-> "Log", n |-> last.n + 1, h |-> h, ctx |-> c, r |-> r,
                           res |-> res, before |-> Len(out)]
    /\ UNCHANGED <<heap, dheap, ctxs, est, hist, thr, handlers, arrays, mu, closed>>

\* Handle called on the handler itself, as a wrapping handler does
HandlerHandle ==
    /\ last.n < MaxEvents
    /\ \E h \in LogHandlers, c \in LogCtxs, r \in Records :
           \E res \in {HandleRender(arrays, handlers[h], heap, ctxs, c, r)} :
               /\ out' = IF res.wrote THEN Append(out, Whole(res.bytes)) ELSE out
               /\ last' = [op |-> "Handle", n |-> last.n + 1, h |-> h, ctx |-> c, r |-> r,
                           res |-> res, before |-> Len(out)]
    /\ UNCHANGED <<heap, dheap, ctxs, est, hist, thr, handlers, arrays, mu, closed>>

NextHandler == HandlerLog \/ HandlerHandle

SpecHandler == InitHandler /\ [][NextHandler]_vars

\* the threshold of a handler: the configured level, Info when none is
Threshold(x) == IF x.opts.Level = NoLevel THEN LevelInfo ELSE x.opts.Level.level

\* the call left nothing behind: no bytes, no stack, no merged attributes
NoSideEffect ==
    /\ Len(out) = last.before
    /\ ~last.res.wrote
    /\ ~last.res.captured
    /\ ~last.res.merged

\* C14: every call of Handle with an event below the handler's threshold
\* writes zero bytes, captures no stack and builds no merged attributes.
C14_HandleGates ==
    (last.op \in {"Log", "Handle"} /\ last.r.Level < Threshold(handlers[last.h]))
        => NoSideEffect

\* C14 (as the code has it): an event below the threshold that is logged
\* through the logger, which asks Enabled before it calls Handle, writes
\* zero bytes, captures no stack and builds no merged attributes; an event
\* at or above the threshold reaches the sink.
C14_LoggerGates ==
    last.op = "Log" =>
        IF last.r.Level < Threshold(handlers[last.h])
        THEN NoSideEffect
        ELSE last.res.merged

\* an Info event, for which the configuration captures a stack, logged
\* through a handler whose threshold is Warn
C14_Witness ==
    /\ last.op = "Log"
    /\ last.r.Level = LevelInfo
    /\ Threshold(handlers[last.h]) = LevelWarn
    /\ handlers[last.h].config.Stack.Enabled
    /\ NoSideEffect

\* the attributes the program's WithAttrs calls gave each handler, in the
\* order of the calls
AppliedAttrs == << << >>, <<Attr1>>, <<Attr1>>, <<Attr1, Attr2>>, <<Attr1, Attr2>> >>

\* the group names the program's WithGroup calls gave each handler
AppliedGroups == << << >>, << >>, << <<"g">> >>, << <<"g">> >>, << <<"g">>, <<"h">> >> >>

\* the context's non-empty fields, read key by key, in the order trace_id,
\* user_id, action
ContextFields(c) ==
    LET one(key) == IF c # 0 /\ Get(heap, ctxs[c], key)[1] # << >>
                    THEN <<[Key |-> key, Value |-> StringValue(Get(heap, ctxs[c], key)[1])]>>
                    ELSE << >>
    IN  one(TraceIDKey) \o one(UserIDKey) \o one(ActionKey)

\* s ends with t
EndsWith(s, t) == Len(s) >= Len(t) /\ SubSeq(s, Len(s) - Len(t) + 1, Len(s)) = t

\* C15: the attribute sequence built for an event is the context's
\* trace_id, user_id, action (the non-empty ones), then the stack entry if
\* one was captured, then service and version, then the handler's
\* attributes in the order of its WithAttrs calls, then the event's own
\* attributes in the caller's order; nothing is dropped, moved or
\* overwritten when keys repeat.
C15_EnrichedOrder ==
    (last.op \in {"Log", "Handle"} /\ last.res.merged) =>
        LET x == handlers[last.h]
            built == last.res.built
            A == ContextFields(last.ctx)
            nB == IF last.res.captured THEN 1 ELSE 0
            D == AppliedAttrs[last.h]
            E == last.r.attrs
            at == Len(A) + nB
        IN  /\ Len(built) = Len(A) + nB + 2 + Len(D) + Len(E)
            /\ SubSeq(built, 1, Len(A)) = A
            /\ nB = 1 => /\ built[Len(A) + 1].Key = TraceKey
                         /\ built[Len(A) + 1].Value.kind = "[]string"
            /\ built[at + 1] = [Key |-> ServiceKey,
                                Value |-> StringValue(x.config.DefaultFields.Service)]
            /\ built[at + 2] = [Key |-> VersionKey,
                                Value |-> StringValue(x.config.DefaultFields.Version)]
            /\ SubSeq(built, at + 3, at + 2 + Len(D)) = D
            /\ \A i \in 1..Len(E) :
                  /\ built[at + 2 + Len(D) + i].Value = E[i].Value
                  /\ EndsWith(built[at + 2 + Len(D) + i].Key, E[i].Key)

\* an event with two attributes logged with all three context fields, a
\* captured stack and two handler attributes: the built sequence holds the
\* key service twice
C15_Witness ==
    /\ last.op \in {"Log", "Handle"}
    /\ last.res.merged
    /\ last.res.captured
    /\ Len(ContextFields(last.ctx)) = 3
    /\ Len(AppliedAttrs[last.h]) = 2
    /\ Len(last.r.attrs) = 2
    /\ Cardinality({i \in 1..Len(last.res.built) : last.res.built[i].Key = ServiceKey}) = 2

\* g1.g2. ... .gn
RECURSIVE DotPath(_)
DotPath(gs) ==
    IF Len(gs) = 1 THEN gs[1]
    ELSE DotPath(SubSeq(gs, 1, Len(gs) - 1)) \o <<".">> \o gs[Len(gs)]

\* the keys of everything in front of the event's attributes, unprefixed
FrontKeys(h, c, captured) ==
    [i \in 1..Len(ContextFields(c)) |-> ContextFields(c)[i].Key]
    \o (IF captured THEN <<TraceKey>> ELSE << >>)
    \o <<ServiceKey, VersionKey>>
    \o [i \in 1..Len(AppliedAttrs[h]) |-> AppliedAttrs[h][i].Key]

\* C16: through a handler whose group path is g1,...,gn (n >= 1) every
\* attribute of the event is emitted with the key g1.g2...gn.k, and the
\* context's fields, the stack entry, service, version and the handler's
\* attributes (added before or after WithGroup) keep their keys.
C16_GroupPrefixOnlyEventAttrs ==
    (last.op \in {"Log", "Handle"} /\ last.res.merged) =>
        LET gs == AppliedGroups[last.h]
            built == last.res.built
            front == FrontKeys(last.h, last.ctx, last.res.captured)
            E == last.r.attrs
        IN  /\ Len(built) = Len(front) + Len(E)
            /\ \A i \in 1..Len(front) : built[i].Key = front[i]
            /\ \A i \in 1..Len(E) :
                  built[Len(front) + i].Key =
                      IF Len(gs) >= 1 THEN DotPath(gs) \o <<".">> \o E[i].Key ELSE E[i].Key

\* an event with attributes through the handler with the path g, h and
\* with one attribute added before and one after the first WithGroup
C16_Witness ==
    /\ last.op \in {"Log", "Handle"}
    /\ last.res.merged
    /\ AppliedGroups[last.h] = << <<"g">>, <<"h">> >>
    /\ Elems(arrays, handlers[last.h].groups) = AppliedGroups[last.h]
    /\ Len(last.r.attrs) = 2
    /\ last.res.built[Len(last.res.built)].Key = <<"g", ".", "h", ".">> \o MessageKey
    /\ \E i \in 1..Len(last.res.built) : last.res.built[i] = Attr1
    /\ \E i \in 1..Len(last.res.built) : last.res.built[i] = Attr2

(***************************************************************************)
(* A program that forks handlers with WithAttrs and WithGroup.  est keeps, *)
(* for every handler, what it held when it was made, its parent and what   *)
(* the call added.                                                         *)
(***************************************************************************)
ForkAttrLists == {<<Attr1>>, <<Attr2>>, <<Attr1, Attr2>>}

ForkGroupNames == {<< >>, <<"g">>}

\* the attributes and groups a handler shows to Handle
HandlerAttrs(h) == Elems(arrays, handlers[h].attrs)

HandlerGroups(h) == Elems(arrays, handlers[h].groups)

InitFork ==
    /\ handlers = <<NewHandler(CHOOSE config \in HandlerConfigs : config.Stack.Enabled,
                               NilOpts, "buffer")>>
    /\ arrays = NewHandlerArrays
    /\ heap = << >>
    /\ dheap = << >>
    /\ ctxs = <<Background>>
    /\ out = << >>
    /\ mu = 0
    /\ closed = FALSE
    /\ last = [op |-> "init"]
    /\ est = <<[attrs |-> << >>, groups |-> << >>, parent |-> 0,
                addedAttrs |-> << >>, addedGroups |-> << >>]>>
    /\ hist = {}
    /\ thr = [t \in Threads |-> Idle]

ForkWithAttrs ==
    /\ Len(handlers) < MaxHandlers
    /\ \E h \in 1..Len(handlers), attrs \in ForkAttrLists :
           \E r \in {WithAttrs([handlers |-> handlers, arrays |-> arrays], h, attrs)} :
               /\ handlers' = r.handlers
               /\ arrays' = r.arrays
               /\ last' = [op |-> "WithAttrs", h |-> h, res |-> r.h]
               /\ est' = Append(est, [attrs  |-> Elems(r.arrays, r.handlers[r.h].attrs),
                                      groups |-> Elems(r.arrays, r.handlers[r.h].groups),
                                      parent |-> h,
                                      addedAttrs |-> attrs, addedGroups |-> << >>])
    /\ UNCHANGED <<heap, dheap, ctxs, hist, thr, out, mu, closed>>

ForkWithGroup ==
    /\ Len(handlers) < MaxHandlers
    /\ \E h \in 1..Len(handlers), name \in ForkGroupNames :
           \E r \in {WithGroup([handlers |-> handlers, arrays |-> arrays], h, name)} :
               /\ handlers' = r.handlers
               /\ arrays' = r.arrays
               /\ last' = [op |-> "WithGroup", h |-> h, name |-> name, res |-> r.h]
               /\ est' = IF r.h = h THEN est
                         ELSE Append(est, [attrs  |-> Elems(r.arrays, r.handlers[r.h].attrs),
                                           groups |-> Elems(r.arrays, r.handlers[r.h].groups),
                                           parent |-> h,
                                           addedAttrs |-> << >>, addedGroups |-> <<name>>])
    /\ UNCHANGED <<heap, dheap, ctxs, hist, thr, out, mu, closed>>

NextFork == ForkWithAttrs \/ ForkWithGroup

SpecFork == InitFork /\ [][NextFork]_vars

\* C17: forking never changes a handler that exists: every handler shows
\* the attributes and the group path it had when it was made, and what it
\* had then was its parent's sequences plus only what its own call added,
\* so forks of one parent never see each other's additions.
C17_ForkNeverMutatesParent ==
    \A h \in 1..Len(handlers) :
        /\ HandlerAttrs(h) = est[h].attrs
        /\ HandlerGroups(h) = est[h].groups
        /\ est[h].parent # 0 =>
              /\ est[h].attrs = est[est[h].parent].attrs \o est[h].addedAttrs
              /\ est[h].groups = est[est[h].parent].groups \o est[h].addedGroups

\* two forks of one derived parent that added different attributes, and a
\* further fork of one of them
C17_Witness ==
    \E p, a, b, d \in 1..Len(handlers) :
        /\ est[p].parent # 0
        /\ est[a].parent = p /\ est[b].parent = p /\ est[d].parent = a
        /\ est[a].addedAttrs # << >> /\ est[b].addedAttrs # << >>
        /\ est[a].addedAttrs # est[b].addedAttrs
        /\ HandlerAttrs(a) # HandlerAttrs(b)
        /\ HandlerAttrs(p) = est[p].attrs

(***************************************************************************)
(* Goroutines that log concurrently through one handler and its forks.     *)
(* Each goroutine logs one event.  Write on the destination is not one     *)
(* step: it leaves the head of the bytes and then their tail.  The file    *)
(* sink calls it holding its mutex, the console sink calls it bare.        *)
(***************************************************************************)
SinkHandlers == {1, 5}

SinkRecords == {r \in Records : r.Level = LevelError}

InitSink ==
    \E setup \in HandlerSetups :
        LET hw == ForkedHandlers(setup[1], NilOpts, setup[2])
        IN  /\ handlers = hw.handlers
            /\ arrays = hw.arrays
            /\ heap = HandlerContexts.heap
            /\ dheap = HandlerContexts.dheap
            /\ ctxs = HandlerContexts.ctxs
            /\ out = << >>
            /\ mu = 0
            /\ closed = FALSE
            /\ last = [op |-> "init"]
            /\ est = << >>
            /\ hist = {}
            /\ thr = [t \in Threads |-> Idle]

\* Handler.Handle up to the sink's h.mu.Lock() or h.writer.Write: the
\* attributes are merged and the record is rendered; an error of
\* json.Marshal returns at once.  writes counts the calls of Write, failed
\* is the error of Write, reached says whether the call came to Write
SHandleOf(t, hs, rs) ==
    /\ thr[t] = Idle
    /\ \E h \in hs, r \in rs :
           \E res \in {HandleRender(arrays, handlers[h], heap, ctxs, 0, r)} :
               thr' = [thr EXCEPT ![t] =
                          IF res.wrote
                          THEN [pc |-> "rendered", h |-> h, bytes |-> res.bytes,
                                locks |-> res.locks, writes |-> 0, failed |-> FALSE]
                          ELSE [pc |-> "returned", h |-> h, err |-> res.err,
                                writes |-> 0, failed |-> FALSE, bytes |-> res.bytes,
                                reached |-> FALSE]]
    /\ UNCHANGED <<heap, dheap, ctxs, last, est, hist, handlers, arrays, out, mu, closed>>

SHandle(t) == SHandleOf(t, SinkHandlers, SinkRecords)

\* h.mu.Lock() of the file sink
SLock(t) ==
    /\ thr[t].pc = "rendered"
    /\ thr[t].locks
    /\ mu = 0
    /\ mu' = t
    /\ thr' = [thr EXCEPT ![t].pc = "locked"]
    /\ UNCHANGED <<heap, dheap, ctxs, last, est, hist, handlers, arrays, out, closed>>

\* h.writer.Write begins: the head of the bytes reaches the destination
SWriteHead(t) ==
    /\ \/ thr[t].pc = "locked"
       \/ thr[t].pc = "rendered" /\ ~thr[t].locks
    /\ out' = Append(out, [part |-> "head", by |-> t, bytes |-> thr[t].bytes])
    /\ thr' = [thr EXCEPT ![t].pc = "writing", ![t].writes = @ + 1]
    /\ UNCHANGED <<heap, dheap, ctxs, last, est, hist, handlers, arrays, mu, closed>>

\* h.writer.Write ends: the tail of the bytes, with the line terminator
SWriteTail(t) ==
    /\ thr[t].pc = "writing"
    /\ out' = Append(out, [part |-> "tail", by |-> t, bytes |-> thr[t].bytes])
    /\ thr' = [thr EXCEPT ![t].pc = "written"]
    /\ UNCHANGED <<heap, dheap, ctxs, last, est, hist, handlers, arrays, mu, closed>>

\* h.writer.Write returns an error: nothing reaches the destination
SWriteFail(t) ==
    /\ \/ thr[t].pc = "locked"
       \/ thr[t].pc = "rendered" /\ ~thr[t].locks
    /\ thr' = [thr EXCEPT ![t].pc = "written", ![t].writes = @ + 1, ![t].failed = TRUE]
    /\ UNCHANGED <<heap, dheap, ctxs, last, est, hist, handlers, arrays, out, mu, closed>>

\* a plausible slip: the error of Write is returned before the mutex is
\* released
SReturnKeepsLock(t) ==
    /\ thr[t].pc = "written"
    /\ mu' = IF thr[t].locks /\ ~thr[t].failed THEN 0 ELSE mu
    /\ thr' = [thr EXCEPT ![t] = [pc |-> "returned", h |-> thr[t].h, err |-> thr[t].failed,
                                  writes |-> thr[t].writes, failed |-> thr[t].failed,
                                  bytes |-> thr[t].bytes, reached |-> TRUE]]
    /\ UNCHANGED <<heap, dheap, ctxs, last, est, hist, handlers, arrays, out, closed>>

\* Handle returns the error of Write; the file sink's deferred
\* h.mu.Unlock() runs
SReturn(t) ==
    /\ thr[t].pc = "written"
    /\ mu' = IF thr[t].locks THEN 0 ELSE mu
    /\ thr' = [thr EXCEPT ![t] = [pc |-> "returned", h |-> thr[t].h, err |-> thr[t].failed,
                                  writes |-> thr[t].writes, failed |-> thr[t].failed,
                                  bytes |-> thr[t].bytes, reached |-> TRUE]]
    /\ UNCHANGED <<heap, dheap, ctxs, last, est, hist, handlers, arrays, out, closed>>

\* the steps of goroutine t inside a call of Handle
SinkStep(t) ==
    \/ SLock(t)
    \/ SWriteHead(t)
    \/ SWriteTail(t)
    \/ SWriteFail(t)
    \/ SReturn(t)

NextSink ==
    \E t \in Threads :
        \/ SHandle(t)
        \/ SinkStep(t)

SpecSink == InitSink /\ [][NextSink]_vars

\* the Go scheduler runs every goroutine that can take a step: a call of
\* Handle that has started is not suspended for ever while it can go on
\* The setups are the ones without stack capture, which has no part in
\* the sink's locking; the calls are made on a fork of the root handler,
\* with an event json.Marshal encodes and one it cannot encode.
InitSinkFair == InitSink /\ ~handlers[1].config.Stack.Enabled

FairRecords == {r \in SinkRecords : Len(r.attrs) # 2}

FairHandle(t) == SHandleOf(t, {5}, FairRecords)

NextSinkFair ==
    \E t \in Threads :
        \/ FairHandle(t)
        \/ SinkStep(t)

SpecSinkFair ==
    InitSinkFair /\ [][NextSinkFair]_vars /\ \A t \in Threads : WF_vars(SinkStep(t))

\* the goroutines inside Write
Writing == {t \in Threads : thr[t].pc = "writing"}

\* C18: on the console sink and on the file sink alike a record is written
\* inside one exclusive critical section: a goroutine inside Write holds
\* the sink's lock, at most one goroutine is inside Write, and at the
\* destination the head of a record is followed by its own tail.
C18_SinkAtomicity ==
    /\ \A t \in Writing : mu = t
    /\ Cardinality(Writing) <= 1
    /\ \A i \in 1..Len(out) - 1 :
          out[i].part = "head" => (out[i + 1].part = "tail" /\ out[i + 1].by = out[i].by)

\* the bytes carry the message of the event
CarriesMessage(bytes, message) ==
    IF bytes.sink = "file"
    THEN /\ MessageKey \in DOMAIN bytes.json.members
         /\ bytes.json.members[MessageKey] = [json |-> "string", text |-> message]
    ELSE bytes.first.message = message

\* C19: no event at or above the threshold is dropped because of an
\* attribute's value: on the console sink and on the file sink Handle
\* writes a record that carries the event's message, whatever the values
\* are, those encoding/json cannot encode included.
C19_NoEventDropped ==
    (/\ last.op \in {"Log", "Handle"}
     /\ last.r.Level >= Threshold(handlers[last.h])
     /\ \A i \in 1..Len(last.r.attrs) : last.r.attrs[i].Key # MessageKey)
        => /\ last.res.wrote
           /\ Len(out) = last.before + 1
           /\ CarriesMessage(out[Len(out)].bytes, last.r.Message)

\* C20: a line the file sink writes is one JSON object whose timestamp,
\* level and message are the event's own time, severity and message, with
\* every enriched attribute beside them, whatever the attributes' keys are.
C20_FileLineOwnFields ==
    (last.op \in {"Log", "Handle"} /\ last.res.wrote /\ handlers[last.h].isFile) =>
        LET line == out[Len(out)].bytes
            members == line.json.members
        IN  /\ line.nl
            /\ line.json.json = "object"
            /\ {TimestampKey, LevelKey, MessageKey} \subseteq DOMAIN members
            /\ members[MessageKey] = [json |-> "string", text |-> last.r.Message]
            /\ members[LevelKey] = [json |-> "string", text |-> LevelString(last.r.Level)]
            /\ members[TimestampKey] =
                  [json |-> "string",
                   text |-> TimeFormat("2006-01-02T15:04:05.000Z07:00", last.r.Time)]
            /\ \A i \in 1..Len(last.res.built) : last.res.built[i].Key \in DOMAIN members

\* the depth the configuration gives the severity of the event
ConfiguredDepth(config, level) ==
    IF level = LevelError THEN config.Stack.Depth.Error
    ELSE IF level = LevelWarn THEN config.Stack.Depth.Warn
    ELSE IF level = LevelInfo THEN config.Stack.Depth.Info
    ELSE config.Stack.Depth.Debug

\* the stack entries of the built sequence: the trace entries in front of
\* service
StackEntries(built) ==
    {i \in 1..Len(built) :
        /\ built[i].Key = TraceKey
        /\ \E j \in i + 1..Len(built) : built[j].Key = ServiceKey}

WroteText ==
    /\ last.op \in {"Log", "Handle"}
    /\ last.res.wrote
    /\ out[Len(out)].bytes.sink = "text"

\* the key=value lines of the written record that show the key
LinesOf(key) == {line \in out[Len(out)].bytes.data : line[1] = key}

\* %v of the values the events carry, told by the kind of the value
ShownValue(v) ==
    CASE v.kind = "string" -> v.v
      [] OTHER             -> SprintV(v)

\* C22: in text mode every entry of the enriched sequence that is neither
\* in the trace/user/action summary nor the stack entry is rendered as
\* exactly one key=value line.
C22_EveryEntryOneLine ==
    WroteText =>
        \A i \in 1..Len(last.res.built) :
            (/\ last.res.built[i].Key \notin ContextKeys
             /\ i \notin StackEntries(last.res.built))
                => LinesOf(last.res.built[i].Key)
                      = {<<last.res.built[i].Key, ShownValue(last.res.built[i].Value)>>}

\* C22 (as the code has it): in text mode an entry whose key is none of
\* trace_id, user_id, action, service, version, trace, and whose key no later
\* entry repeats, is rendered as exactly one key=value line; service and
\* version are not rendered; every line shows an entry of the sequence.
C22_UnskippedEntryOneLine ==
    WroteText =>
        LET built == last.res.built
        IN  /\ \A i \in 1..Len(built) :
                  (/\ built[i].Key \notin SkippedKeys
                   /\ \A j \in i + 1..Len(built) : built[j].Key # built[i].Key)
                      => LinesOf(built[i].Key) = {<<built[i].Key, ShownValue(built[i].Value)>>}
            /\ LinesOf(ServiceKey) = {}
            /\ LinesOf(VersionKey) = {}
            /\ \A line \in out[Len(out)].bytes.data :
                  \E i \in 1..Len(built) :
                      /\ built[i].Key \notin SkippedKeys
                      /\ line = <<built[i].Key, ShownValue(built[i].Value)>>

\* a text record with two lines for the event's two attributes, written
\* through a handler whose own attribute has the key of one of them
C22_Witness ==
    /\ WroteText
    /\ last.h = 2
    /\ Len(last.r.attrs) = 2
    /\ Cardinality(out[Len(out)].bytes.data) = 2
    /\ LinesOf(<<"k">>) = {<< <<"k">>, <<"v">> >>}
    /\ \E i \in 1..Len(last.res.built) : last.res.built[i] = Attr1

\* the scenario: the root handler in text mode, stack capture off, the
\* default Info threshold; an Info event without attributes logged with a
\* context that carries no field
PlainInfoEvent ==
    /\ last.op = "Log"
    /\ last.h = 1
    /\ ~handlers[1].isFile
    /\ ~handlers[1].config.Pretty.IsJsonOutput
    /\ ~handlers[1].config.Stack.Enabled
    /\ handlers[1].opts.Level = NoLevel
    /\ last.r.Level = LevelInfo
    /\ last.r.attrs = << >>
    /\ last.ctx = 0

\* the line terminators of a console record: the ones written alone, one
\* after the title and after each frame of the trace section, one after
\* each data line
Terminators(bytes) ==
    Cardinality({i \in 1..Len(bytes.layout) : bytes.layout[i] = "NL"})
    + (IF bytes.trace # << >> THEN 1 + Len(bytes.trace[1].frames) ELSE 0)
    + (IF bytes.sink = "text" THEN Cardinality(bytes.data) ELSE 0)

\* C23: in that scenario the handler writes exactly one line: it holds the
\* message, no summary and no "Stack Trace:" section, and ends with a
\* single line terminator.
C23_PlainInfoOneLine ==
    PlainInfoEvent =>
        /\ last.res.wrote
        /\ Len(out) = last.before + 1
        /\ LET bytes == out[Len(out)].bytes
           IN  /\ bytes.sink = "text"
               /\ bytes.first.message = last.r.Message
               /\ bytes.first.level = "INFO"
               /\ bytes.first.context = << >>
               /\ bytes.trace = << >>
               /\ bytes.data = {}
               /\ bytes.layout = <<"first", "NL">>
               /\ Terminators(bytes) = 1

C23_Witness ==
    /\ PlainInfoEvent
    /\ Len(out) = 1
    /\ out[1].bytes.first.message = <<"o", "k">>
    /\ out[1].bytes.layout = <<"first", "NL">>

(***************************************************************************)
(* Close.  The destination is a regular file ("file"), the standard        *)
(* output, an *os.File that NewHandler does not take for a file            *)
(* ("stdout"), or a writer that is no *os.File ("buffer").  closed is the  *)
(* state of the regular file: Close of an *os.File closes it, and returns  *)
(* os.ErrClosed when it has already been closed.                           *)
(***************************************************************************)
MaxCloses == 3

CloseWriters == {"file", "stdout", "buffer"}

OsFiles == {"file", "stdout"}

\* Handler.Close: file.Close() for a handler in file mode on an *os.File,
\* nil for every other handler
Close(h, isClosed) ==
    IF h.isFile
    THEN IF h.writer \in OsFiles
         THEN [err |-> isClosed, closed |-> TRUE]
         ELSE [err |-> FALSE, closed |-> isClosed]
    ELSE [err |-> FALSE, closed |-> isClosed]

InitClose ==
    \E config \in HandlerConfigs, w \in CloseWriters :
        LET hw == ForkedHandlers(config, NilOpts, w)
        IN  /\ handlers = hw.handlers
            /\ arrays = hw.arrays
            /\ heap = HandlerContexts.heap
            /\ dheap = HandlerContexts.dheap
            /\ ctxs = HandlerContexts.ctxs
            /\ out = << >>
            /\ mu = 0
            /\ closed = FALSE
            /\ last = [op |-> "init", n |-> 0]
            /\ est = {}
            /\ hist = {}
            /\ thr = << >>

\* one call of Close on a handler or on one of its forks; est keeps the
\* handlers Close has been called on
HandlerClose ==
    /\ last.n < MaxCloses
    /\ \E h \in 1..Len(handlers) :
           \E res \in {Close(handlers[h], closed)} :
               /\ closed' = res.closed
               /\ est' = est \cup {h}
               /\ last' = [op |-> "Close", n |-> last.n + 1, h |-> h,
                           again |-> h \in est, err |-> res.err,
                           before |-> closed]
    /\ UNCHANGED <<heap, dheap, ctxs, hist, thr, handlers, arrays, out, mu>>

NextClose == HandlerClose

SpecClose == InitClose /\ [][NextClose]_vars

\* C24: Close is idempotent: a call of Close on a handler Close has been
\* called on before returns no error and changes nothing, and Close on a
\* handler whose destination is no closable file returns no error and
\* changes nothing.
C24_CloseIdempotent ==
    last.op = "Close" =>
        /\ last.again => (~last.err /\ closed = last.before)
        /\ ~(handlers[last.h].isFile /\ handlers[last.h].writer \in OsFiles)
               => (~last.err /\ closed = last.before)

\* the second half alone: Close on a handler that is not in file mode, the
\* standard output included, is a no-op without error
C24_NotClosableNoOp ==
    (last.op = "Close" /\ ~handlers[last.h].isFile)
        => (~last.err /\ closed = last.before)

(***************************************************************************)
(* Console JSON mode on attribute values that hold error objects inside    *)
(* mappings and sequences, as TestErrorObjectInJson logs them.             *)
(***************************************************************************)
MaxDepth == 3

SampleError == ErrorValue(<<"e">>)

JsonLeaves == {StringValue(<<"a">>), SampleError}

\* a container around x: next to x a []any holds a string and a map holds
\* a string under another key; the typed containers hold what their type
\* admits
Wrap(kind, x) ==
    IF kind \in SliceKinds
    THEN SliceValue(kind, IF kind = "[]any" THEN <<x, StringValue(<<"b">>)>> ELSE <<x>>)
    ELSE MapValue(kind, IF kind = "map[string]any"
                        THEN MapPut(MapPut(EmptyMap, <<"k">>, x), <<"m">>, StringValue(<<"b">>))
                        ELSE MapPut(EmptyMap, <<"k">>, x))

\* the element types the containers admit
Admits(kind, x) ==
    CASE kind \in {"[]any", "map[string]any"} -> TRUE
      [] kind \in {"[]error", "map[string]error"} -> x.kind = "error"
      [] kind = "[]map[string]any" -> x.kind = "map[string]any"

\* the values nested at most d containers deep
RECURSIVE JsonValues(_)
JsonValues(d) ==
    IF d = 0 THEN JsonLeaves
    ELSE LET inner == JsonValues(d - 1)
         IN  inner \cup {Wrap(kind, x) : <<kind, x>> \in
                            {p \in (SliceKinds \cup MapKinds) \X inner : Admits(p[1], p[2])}}

InitConvert ==
    \E setup \in {s \in HandlerSetups : s[1].Pretty.IsJsonOutput} :
        LET hw == ForkedHandlers(setup[1], NilOpts, setup[2])
        IN  /\ handlers = hw.handlers
            /\ arrays = hw.arrays
            /\ heap = HandlerContexts.heap
            /\ dheap = HandlerContexts.dheap
            /\ ctxs = HandlerContexts.ctxs
            /\ out = << >>
            /\ mu = 0
            /\ closed = FALSE
            /\ last = [op |-> "init", n |-> 0]
            /\ est = << >>
            /\ hist = {}
            /\ thr = << >>

\* logger.Info("ok", "data", value) through a handler in console JSON mode
ConvertHandle ==
    /\ last.op = "init"
    /\ \E h \in {1, 3}, value \in JsonValues(MaxDepth) :
           LET r == [Time |-> "t0", Level |-> LevelInfo, Message |-> <<"o", "k">>,
                     attrs |-> <<SlogAny(<<"d", "a", "t", "a">>, value)>>]
           IN  \E res \in {HandleRender(arrays, handlers[h], heap, ctxs, 0, r)} :
                   /\ out' = IF res.wrote THEN Append(out, Whole(res.bytes)) ELSE out
                   /\ last' = [op |-> "Handle", n |-> last.n + 1, h |-> h,
                               value |-> value, res |-> res]
    /\ UNCHANGED <<heap, dheap, ctxs, est, hist, thr, handlers, arrays, mu, closed>>

NextConvert == ConvertHandle

SpecConvert == InitConvert /\ [][NextConvert]_vars

\* the texts of the error objects and of the other leaves inside a value
RECURSIVE ErrorTexts(_)
ErrorTexts(v) ==
    IF v.kind = "error" THEN {v.text}
    ELSE IF v.kind \in SliceKinds THEN UNION {ErrorTexts(v.items[i]) : i \in 1..Len(v.items)}
    ELSE IF v.kind \in MapKinds THEN UNION {ErrorTexts(v.members[k]) : k \in DOMAIN v.members}
    ELSE {}

RECURSIVE StringTexts(_)
StringTexts(v) ==
    IF v.kind = "string" THEN {v.v}
    ELSE IF v.kind \in SliceKinds THEN UNION {StringTexts(v.items[i]) : i \in 1..Len(v.items)}
    ELSE IF v.kind \in MapKinds THEN UNION {StringTexts(v.members[k]) : k \in DOMAIN v.members}
    ELSE {}

\* the strings of a JSON text
RECURSIVE JsonStrings(_)
JsonStrings(j) ==
    IF j.json = "string" THEN {j.text}
    ELSE IF j.json = "array" THEN UNION {JsonStrings(j.items[i]) : i \in 1..Len(j.items)}
    ELSE UNION {JsonStrings(j.members[k]) : k \in DOMAIN j.members}

\* the JSON text of the Data section, under the key the event's attribute
\* is given, the last of the attributes built
LoggedData ==
    out[Len(out)].bytes.data[1].members[last.res.built[Len(last.res.built)].Key]

\* the containers of a value are map[string]any and []any throughout
RECURSIVE OnlyAny(_)
OnlyAny(v) ==
    IF v.kind = "[]any" THEN \A i \in 1..Len(v.items) : OnlyAny(v.items[i])
    ELSE IF v.kind = "map[string]any" THEN \A k \in DOMAIN v.members : OnlyAny(v.members[k])
    ELSE v.kind \in {"string", "error"}

\* C25: in console JSON mode the Data section holds the text of every
\* error object inside the attribute's value, at any nesting depth of
\* mappings and sequences, and the other leaves unchanged.
C25_ErrorsStringified ==
    (last.op = "Handle" /\ "value" \in DOMAIN last) =>
        /\ out[Len(out)].bytes.data # << >>
        /\ ErrorTexts(last.value) \subseteq JsonStrings(LoggedData)
        /\ StringTexts(last.value) \subseteq JsonStrings(LoggedData)

\* the same for a value whose containers are map[string]any and []any
C25_AnyContainersStringified ==
    (last.op = "Handle" /\ "value" \in DOMAIN last /\ OnlyAny(last.value)) =>
        /\ out[Len(out)].bytes.data # << >>
        /\ JsonStrings(LoggedData) = ErrorTexts(last.value) \cup StringTexts(last.value)

(***************************************************************************)
(* Callers that thread one context through WithTraceID, Set, WithTraceparent*)
(* and GenerateTraceparentFromContext: each call is made on the context    *)
(* the call before it returned.  The values pinned are of every shape.     *)
(***************************************************************************)
\* what is pinned as trace_id: the string of
\* TestWithTraceIDBackwardCompatibility, an id with an uppercase digit, the
\* all-zero id
WirePins == {<<"t", "-", "7">>, Patch(Fill("a", 32), 1, "F"), Fill("0", 32)}

\* what is stored as trace_flags
WireFlags == {<<"F", "F">>, <<"0">>}

\* the headers handed to WithTraceparent: a valid one with an uppercase
\* digit, one with the all-zero trace id, one of a single field, one with
\* flags that are no hex
WireHeaders ==
    {IncomingHeader,
     Sprintf4(<<"0", "0">>, Fill("0", 32), Fill("b", 16), <<"0", "1">>),
     <<"t", "-", "7">>,
     Sprintf4(<<"0", "0">>, Fill("a", 32), Fill("b", 16), <<"0", "g">>)}

\* the context the caller holds: the one made last
Held == Len(ctxs)

\* est is history of the trace spec only: one entry per context
Grown(n) == [i \in 1..n |-> IF i <= Len(est) THEN est[i] ELSE NoTraceID]

WireWithTraceID ==
    /\ Len(ctxs) <= MaxTraceCtx
    /\ \E traceID \in WirePins :
           \E r \in {WithTraceID(World, Held, traceID)} :
               /\ Commit(r)
               /\ est' = Grown(Len(r.ctxs))
               /\ last' = [op |-> "WithTraceID", ctx |-> Held, value |-> traceID,
                           res |-> r.ctx]
    /\ UNCHANGED <<hist, thr, handlers, arrays, out, mu, closed>>

WireSet ==
    /\ Len(ctxs) <= MaxTraceCtx
    /\ \E key \in OtherKeys, value \in WireFlags :
           \E r \in {Set(World, Held, key, value)} :
               /\ Commit(r)
               /\ est' = Grown(Len(r.ctxs))
               /\ last' = [op |-> "Set", ctx |-> Held, key |-> key, value |-> value,
                           res |-> r.ctx]
    /\ UNCHANGED <<hist, thr, handlers, arrays, out, mu, closed>>

WireWithTraceparent ==
    /\ Len(ctxs) <= MaxTraceCtx
    /\ \E header \in WireHeaders :
           \E r \in {WithTraceparent(World, Held, header)} :
               /\ Commit(r)
               /\ est' = Grown(Len(r.ctxs))
               /\ last' = [op |-> "WithTraceparent", ctx |-> Held, header |-> header,
                           res |-> r.ctx, err |-> r.err,
                           pre |-> Carrier(heap, ctxs[Held]),
                           same |-> (r.heap = heap /\ r.dheap = dheap /\ r.ctxs = ctxs)]
    /\ UNCHANGED <<hist, thr, handlers, arrays, out, mu, closed>>

WireGenerateTraceparentFromContext ==
    /\ Len(ctxs) <= MaxTraceCtx
    /\ \E rs \in CallReadsOn(Held) :
           \E r \in {GenerateTraceparentFromContext(World, Held, rs)} :
               /\ Commit(r)
               /\ est' = Grown(Len(r.ctxs))
               /\ last' = [op |-> "GenerateTraceparentFromContext", ctx |-> Held,
                           res |-> r.ctx, header |-> r.header, err |-> r.err,
                           drew |-> r.drew, pb |-> r.pb,
                           stored |-> <<MapGet(Carrier(heap, ctxs[Held]), TraceIDKey),
                                        MapGet(Carrier(heap, ctxs[Held]), TraceFlagsKey)>>]
    /\ UNCHANGED <<hist, thr, handlers, arrays, out, mu, closed>>

NextWire ==
    \/ WireWithTraceID
    \/ WireSet
    \/ WireWithTraceparent
    \/ WireGenerateTraceparentFromContext

SpecWire == InitTrace /\ [][NextWire]_vars

\* C26: a header GenerateTraceparentFromContext returns without error is
\* accepted by ParseTraceparent, whatever trace_id and trace_flags the
\* context stored.
C26_HeaderAlwaysParses ==
    (last.op = "GenerateTraceparentFromContext" /\ ~last.err)
        => ParseTraceparent(last.header).ok

\* the same for the calls that find a valid trace id or none, valid flags
\* or none, and whose span id is not all zero
C26_ValidStoredHeaderParses ==
    (/\ last.op = "GenerateTraceparentFromContext"
     /\ ~last.err
     /\ \/ last.stored[1] = << >>
        \/ (isValidHexLen(ToLower(last.stored[1]), 16) /\ ~isAllZeroHex(ToLower(last.stored[1])))
     /\ \/ last.stored[2] = << >>
        \/ isValidHexLen(ToLower(last.stored[2]), 1)
     /\ \E i \in 1..Len(last.pb) : last.pb[i] # 0
     /\ last.drew => ~isAllZeroHex(HeaderTraceID(last.header)))
        => ParseTraceparent(last.header).ok

\* C27: WithTraceparent is all-or-nothing.  For a header ParseTraceparent
\* accepts, the context returned stores the parsed trace id, span id and
\* flags and every other key as the input context has it; for a header it
\* rejects, the error comes with the input context and nothing in the
\* store has changed.
C27_WithTraceparentAllOrNothing ==
    last.op = "WithTraceparent" =>
        LET p == ParseTraceparent(last.header)
        IN  /\ Carrier(heap, ctxs[last.ctx]) = last.pre
            /\ IF p.ok
               THEN /\ ~last.err
                    /\ Get(heap, ctxs[last.res], TraceIDKey) = <<p.tc.TraceID, TRUE>>
                    /\ Get(heap, ctxs[last.res], SpanIDKey) = <<p.tc.ParentID, TRUE>>
                    /\ Get(heap, ctxs[last.res], TraceFlagsKey) = <<p.tc.TraceFlags, TRUE>>
                    /\ OtherEntries(last.res) = OtherEntries(last.ctx)
               ELSE /\ last.err
                    /\ last.res = last.ctx
                    /\ last.same

\* a header is rejected on a context that stores a pinned trace id and a
\* user id, and a header is accepted on such a context
C27_Witness ==
    /\ last.op = "WithTraceparent"
    /\ last.err
    /\ last.same
    /\ UserIDKey \in DOMAIN last.pre
    /\ MapGet(last.pre, TraceIDKey) = <<"t", "-", "7">>

C27_WitnessAccepted ==
    /\ last.op = "WithTraceparent"
    /\ ~last.err
    /\ UserIDKey \in DOMAIN last.pre
    /\ MapGet(last.pre, TraceIDKey) = <<"t", "-", "7">>
    /\ MapGet(Carrier(heap, ctxs[last.res]), TraceIDKey) = HeaderTraceID(ToLower(IncomingHeader))
    /\ UserIDKey \in DOMAIN Carrier(heap, ctxs[last.res])

\* goroutine t is inside a call of Handle
InHandle(t) == thr[t].pc \in {"rendered", "locked", "writing", "written"}

\* goroutine t waits for the sink's mutex, which another goroutine holds
WaitsForLock(t) == thr[t].pc = "rendered" /\ thr[t].locks /\ mu \notin {0, t}

\* C28: under fair scheduling every call of Handle that starts returns;
\* the sink's mutex is held only by a goroutine inside the locked section
\* of its call, so it is released on every path, a failed Write included;
\* and a call that cannot take a step is waiting for the mutex while
\* another call holds it.
C28_HandleCompletes ==
    /\ \A t \in Threads : InHandle(t) ~> (thr[t].pc = "returned")
    /\ [](\A t \in Threads :
             /\ mu = t <=> (thr[t].pc \in {"locked", "writing", "written"} /\ thr[t].locks)
             /\ (InHandle(t) /\ ~ENABLED SinkStep(t)) => WaitsForLock(t))

\* a call whose Write failed has returned the error and another goroutine
\* holds the mutex after it
C28_Witness ==
    \E t, u \in Threads :
        /\ thr[t].pc = "returned" /\ thr[t].failed /\ thr[t].err /\ thr[t].writes = 1
        /\ thr[u].pc = "locked"
        /\ mu = u

\* the calls of Handle that have returned
Returned == {t \in Threads : thr[t].pc = "returned"}

\* the destination holds the bytes of t's record, head then tail
ReachedDestination(t) ==
    \E i, j \in 1..Len(out) :
        /\ i < j
        /\ out[i] = [part |-> "head", by |-> t, bytes |-> thr[t].bytes]
        /\ out[j] = [part |-> "tail", by |-> t, bytes |-> thr[t].bytes]

\* C30: every call of Handle makes exactly one call of Write on the
\* destination, in text mode, console JSON mode and file mode alike; the
\* bytes of that call are the complete record with its line terminator,
\* and Handle returns the error of that Write.
C30_OneWritePerEvent ==
    \A t \in Returned :
        /\ thr[t].writes = 1
        /\ thr[t].err = thr[t].failed
        /\ thr[t].reached
        /\ thr[t].bytes.nl
        /\ ~thr[t].failed => ReachedDestination(t)

\* the same for the calls whose record the sink could render; the others
\* return the error of json.Marshal and make no call of Write
C30_RenderedOneWrite ==
    \A t \in Returned :
        IF ~thr[t].reached
        THEN thr[t].writes = 0 /\ thr[t].err /\ handlers[thr[t].h].isFile
        ELSE /\ thr[t].writes = 1
             /\ thr[t].err = thr[t].failed
             /\ thr[t].bytes.nl
             /\ ~thr[t].failed => ReachedDestination(t)

(***************************************************************************)
(* SetPair called while slog's default logger is a Handler.  thr is the    *)
(* call stack: the frame of SetPair, and above it the frame of Handle      *)
(* while the warning is handled.                                           *)
(***************************************************************************)
\* the thresholds: the ones of HandlerOpts and one above the warning
WarnOpts == HandlerOpts \cup {[Level |-> Leveler(LevelError)]}

\* argument lists of SetPair: one key, a pair and a key, a pair
WarnArgLists ==
    {<<UserIDKey>>, <<UserIDKey, <<"V">>, ActionKey>>, <<UserIDKey, <<"V">>>>}

\* the contexts SetPair is called on
WarnCtxs == {1, 4, 6}

\* the record slog.WarnContext makes
WarnRecord ==
    [Time |-> "t0", Level |-> LevelWarn, Message |-> <<"o", "d", "d">>, attrs |-> << >>]

InitWarn ==
    \E setup \in HandlerSetups, opts \in WarnOpts :
        LET hw == ForkedHandlers(setup[1], opts, setup[2])
        IN  /\ handlers = hw.handlers
            /\ arrays = hw.arrays
            /\ heap = HandlerContexts.heap
            /\ dheap = HandlerContexts.dheap
            /\ ctxs = HandlerContexts.ctxs
            /\ out = << >>
            /\ mu = 0
            /\ closed = FALSE
            /\ last = [op |-> "init"]
            /\ est = << >>
            /\ hist = {}
            /\ thr = << >>

SetPairFrames == {i \in 1..Len(thr) : thr[i].fn = "SetPair"}

\* the caller calls SetPair(ctx, args...); d is the handler that is slog's
\* default
WCall ==
    /\ last.op = "init"
    /\ thr = << >>
    /\ \E c \in WarnCtxs, args \in WarnArgLists, d \in SinkHandlers :
           /\ thr' = <<[fn |-> "SetPair", pc |-> "entry", ctx |-> c, args |-> args,
                        d |-> d, warnings |-> 0]>>
           /\ last' = [op |-> "call", world |-> World]
    /\ UNCHANGED <<heap, dheap, ctxs, est, hist, handlers, arrays, out, mu, closed>>

\* slog.WarnContext in SetPair: the default logger asks Enabled and calls
\* Handle when it says so
WWarn ==
    /\ thr # << >>
    /\ LET f == thr[Len(thr)]
       IN  /\ f.fn = "SetPair"
           /\ f.pc = "entry"
           /\ Len(f.args) % 2 # 0
           /\ thr' = IF Enabled(handlers[f.d], WarnRecord.Level)
                     THEN Append([thr EXCEPT ![Len(thr)].pc = "warning",
                                             ![Len(thr)].warnings = @ + 1],
                                 [fn |-> "Handle", ctx |-> f.ctx, d |-> f.d])
                     ELSE [thr EXCEPT ![Len(thr)].pc = "warned",
                                      ![Len(thr)].warnings = @ + 1]
    /\ UNCHANGED <<heap, dheap, ctxs, last, est, hist, handlers, arrays, out, mu, closed>>

\* a plausible slip: the handler enriches the context of the record with
\* SetPair, leaving out the value
WHandleCallsSetPair ==
    /\ thr # << >>
    /\ LET f == thr[Len(thr)]
       IN  /\ f.fn = "Handle"
           /\ thr' = Append(thr, [fn |-> "SetPair", pc |-> "entry", ctx |-> f.ctx,
                                  args |-> <<TraceIDKey>>, d |-> f.d, warnings |-> 0])
    /\ UNCHANGED <<heap, dheap, ctxs, last, est, hist, handlers, arrays, out, mu, closed>>

\* Handler.Handle of the warning: prepareLogAttrs reads the context with
\* FromContext, the sink writes the record; Handle returns to SetPair
WHandle ==
    /\ thr # << >>
    /\ LET f == thr[Len(thr)]
       IN  /\ f.fn = "Handle"
           /\ \E res \in {HandleRender(arrays, handlers[f.d], heap, ctxs, f.ctx, WarnRecord)} :
                  out' = IF res.wrote THEN Append(out, Whole(res.bytes)) ELSE out
           /\ thr' = [SubSeq(thr, 1, Len(thr) - 1) EXCEPT ![Len(thr) - 1].pc = "warned"]
    /\ UNCHANGED <<heap, dheap, ctxs, last, est, hist, handlers, arrays, mu, closed>>

\* the rest of SetPair: the copy of the carrier, the writes, the new
\* context; SetPair returns
WStore ==
    /\ thr # << >>
    /\ LET f == thr[Len(thr)]
       IN  /\ f.fn = "SetPair"
           /\ \/ f.pc = "warned"
              \/ f.pc = "entry" /\ Len(f.args) % 2 = 0
           /\ \E r \in {SetPair(World, f.ctx, f.args)} :
                  /\ Commit(r)
                  /\ last' = [op |-> "SetPair", ctx |-> f.ctx, args |-> f.args, d |-> f.d,
                              res |-> r.ctx, warnings |-> f.warnings, world |-> last.world]
           /\ thr' = SubSeq(thr, 1, Len(thr) - 1)
    /\ UNCHANGED <<est, hist, handlers, arrays, out, mu, closed>>

\* the steps of a call in progress
WarnStep == WWarn \/ WHandle \/ WStore

NextWarn == WCall \/ WarnStep

\* the call runs on: a goroutine that can take its next step takes it
SpecWarn == InitWarn /\ [][NextWarn]_vars /\ WF_vars(WarnStep)

====
